---- MODULE Spec2Model ----
(***************************************************************************)
(* Model of the waterlight-node client: the request dispatch/retry engine  *)
(* (Waterlight._request, src/src/client.ts) and the SSE stream decoder     *)
(* (Stream[Symbol.asyncIterator], src/unnamed/part_002, streaming.ts).     *)
(*                                                                         *)
(* One step of the model is one continuation of the async code: the code   *)
(* that runs, without interruption, from one await to the next.            *)
(* Durations are in milliseconds.  parseFloat results are kept in          *)
(* thousandths of a second so that they stay integers.                     *)
(***************************************************************************)
EXTENDS Integers, Sequences, FiniteSets, TLC

VARIABLES
    maxRetries,   \* this.maxRetries of the client
    hasBody,      \* whether the logical call carries a body (_post) or not (_get)
    pc,           \* where the logical call is suspended
    attempt,      \* the local `attempt` of _request
    nFetch,       \* number of fetch() calls issued by the logical call
    inFlight,     \* ids of the fetch() promises not yet settled
    timers,       \* ids of the armed timeout timers (timer k belongs to fetch k)
    aborted,      \* ids of the AbortControllers whose abort() has run
    res,          \* the last Response received (status and headers)
    delay,        \* the argument of the last sleep(delay)
    result,       \* the value _request returned
    error,        \* the error _request threw
    spc,          \* where the traversal of the Stream is suspended
    sFetch,       \* number of fetch() calls issued by the Stream
    sStatus,      \* res.status of the response to the streaming request
    sTimer,       \* whether the timeout timer of the traversal is armed
    sAborted,     \* whether abort() of the traversal's controller has run
    sent,         \* the body the server sends on the streaming response
    wire,         \* the bytes of the body not yet delivered by reader.read()
    pending,      \* bytes of an incomplete character held by the TextDecoder
    buffer,       \* the local `buffer` of the traversal
    lines,        \* the lines of rawEvent the for loop has still to visit
    emitted,      \* the events yielded to the consumer, in order
    nReads,       \* number of reader.read() calls issued
    readerHeld,   \* whether the reader's lock is held
    nRelease,     \* number of reader.releaseLock() calls
    sError,       \* the error the traversal threw
    readDone,     \* whether reader.read() has resolved with done
    abandoned,    \* whether the consumer has called return() on the iterator
    opts,         \* the options and environment the constructor is given
    client,       \* the fields of the Waterlight object (apiKey, baseUrl)
    cError,       \* the error the constructor threw
    call,         \* the arguments of _request: method, path, body
    requests,     \* the requests the logical call has handed to fetch(), in order
    errorBody,    \* the body of the non-2xx response that handleError was given
    stream,       \* the fields of the Stream object (url, apiKey, body)
    created,      \* what chat.completions.create was given and returned
    sRequests,    \* the requests the Stream has handed to fetch(), in order
    injected      \* whether the consumer has called throw() on the iterator

cvars == <<opts, client, cError>>

dvars == <<maxRetries, hasBody, pc, attempt, nFetch, inFlight, timers, aborted,
           res, delay, result, error, call, requests, errorBody>>

svars == <<spc, sFetch, sStatus, sTimer, sAborted, sent, wire, pending, buffer, lines,
           emitted, nReads, readerHeld, nRelease, sError, readDone, abandoned,
           stream, created, sRequests, injected>>

vars == <<cvars, dvars, svars>>

-----------------------------------------------------------------------------
(* Bounds of the model *)

MaxRetriesBound == 3

\* The model's kibi: MAX_SSE_BUFFER is 10 * 1024 * 1024 in the source
BufferUnit == 2

\* Number of traversals of one Stream object
MaxTraversals == 2

-----------------------------------------------------------------------------
(* JavaScript values *)

Null == "<null>"
Undefined == "<undefined>"
NoNumber == -1

\* JavaScript truthiness of a string-or-null value
Truthy(s) == s # Null /\ s # Undefined /\ s # ""

\* a ?? b
Coalesce(a, b) == IF a = Null \/ a = Undefined THEN b ELSE a

\* Values of the retry-after header the server sends (seconds, integer or float)
RetryAfterValues == {"0", "0.01", "2", "30"}

\* parseFloat on those texts, in thousandths
ParseFloatMilli(s) ==
    CASE s = "0" -> 0
      [] s = "0.01" -> 10
      [] s = "2" -> 2000
      [] s = "30" -> 30000

RequestIdValues == {"req-xyz-123"}

-----------------------------------------------------------------------------
(* errors.ts *)

MkError(name, message, status, requestId, retryAfter) ==
    [name |-> name, message |-> message, status |-> status,
     requestId |-> requestId, retryAfter |-> retryAfter]

NoError == MkError("none", Undefined, NoNumber, Undefined, NoNumber)

WaterlightError(message, status, requestId) ==
    MkError("WaterlightError", message, status, requestId, NoNumber)

AuthenticationError(message, requestId) ==
    MkError("AuthenticationError", message, 401, requestId, NoNumber)

RateLimitError(message, retryAfter, requestId) ==
    MkError("RateLimitError", message, 429, requestId, retryAfter)

InsufficientCreditsError(message, requestId) ==
    MkError("InsufficientCreditsError", message, 402, requestId, NoNumber)

APIError(message, status, requestId) ==
    MkError("APIError", message, status, requestId, NoNumber)

\* e instanceof WaterlightError
InstanceOfWaterlightError(e) ==
    e.name \in {"WaterlightError", "AuthenticationError", "RateLimitError",
                "InsufficientCreditsError", "APIError"}

\* Errors that are not library errors: what fetch() and Response.json() reject with
RawError(name, message) == MkError(name, message, NoNumber, Undefined, NoNumber)

AbortError == RawError("AbortError", "The operation was aborted.")

NetworkErrors == {RawError("TypeError", "fetch failed"),
                  RawError("Error", "ECONNRESET")}

BodyErrors == {RawError("SyntaxError", "Unexpected token"),
               RawError("TypeError", "terminated")}

-----------------------------------------------------------------------------
(* Responses *)

Statuses == {200, 201, 401, 402, 403, 418, 429, 500, 501, 502, 503, 504}

\* Response.ok
Ok(status) == status >= 200 /\ status <= 299

MkResponse(status, retryAfter, requestId) ==
    [status |-> status, retryAfter |-> retryAfter, requestId |-> requestId]

\* The Response that answers fetch number n of the logical call
Answer(r, n) ==
    [status |-> r.status, retryAfter |-> r.retryAfter, requestId |-> r.requestId,
     fetch |-> n]

NoResponse == Answer(MkResponse(0, Null, Null), -1)

Responses ==
    {MkResponse(s, ra, id) : s \in Statuses,
                             ra \in {Null} \cup RetryAfterValues,
                             id \in {Null} \cup RequestIdValues}

\* The `error` field of a parsed error body: absent, a string, an object with
\* a message, an object without one.  "unparseable": res.json() rejects.
MkBody(kind, text) == [kind |-> kind, text |-> text]

EmptyObject == MkBody("absent", Undefined)

ErrorBodies ==
    {EmptyObject,
     MkBody("string", "Forbidden"),
     MkBody("object", "Invalid API key"),
     MkBody("object", Undefined),
     MkBody("unparseable", Undefined)}

OkValues == {"chatcmpl-abc"}

-----------------------------------------------------------------------------
(* Configuration and requests.  A URL is a sequence of one-character        *)
(* strings, so that startsWith and replace act on its characters.           *)

\* An absent text (undefined), as a text
UndefinedText == <<"<undefined>">>

\* a ?? b on texts
CoalesceText(a, b) == IF a = UndefinedText THEN b ELSE a

HttpsScheme == <<"h", "t", "t", "p", "s", ":", "/", "/">>
HttpScheme == <<"h", "t", "t", "p", ":", "/", "/">>

DEFAULT_BASE_URL ==
    HttpsScheme \o <<"a", "p", "i", ".", "w", "a", "t", "e", "r", "l", "i", "g", "h", "t",
                     ".", "i", "o">>

ChatCompletionsPath ==
    <<"/", "v", "1", "/", "c", "h", "a", "t", "/", "c", "o", "m", "p", "l", "e", "t", "i",
      "o", "n", "s">>

ModelsPath == <<"/", "v", "1", "/", "m", "o", "d", "e", "l", "s">>

USER_AGENT == "waterlight-node/0.2.1"

\* The fields of a Waterlight object
MkClient(apiKey, baseUrl) == [apiKey |-> apiKey, baseUrl |-> baseUrl]

NoClient == MkClient(Undefined, <<>>)

\* The arguments of the constructor and the two environment variables
MkOptions(apiKey, baseUrl, maxRetriesOption, envKey, envUrl) ==
    [apiKey |-> apiKey, baseUrl |-> baseUrl, maxRetries |-> maxRetriesOption,
     envKey |-> envKey, envUrl |-> envUrl]

\* JavaScript values of params.stream, as literals, and their truthiness
ParamStreamValues == {"undefined", "null", "false", "true", "0", "1", "''", "'yes'"}

JSTruthy(literal) == literal \notin {"undefined", "null", "false", "0", "''"}

\* A request body: JSON.stringify of an object, of which the model keeps the
\* stream property ("absent" when the object has none)
MkJsonBody(streamFlag) == [present |-> TRUE, stream |-> streamFlag]

NoBody == [present |-> FALSE, stream |-> "absent"]

\* The arguments of _request
MkCall(method, path, body) == [method |-> method, path |-> path, body |-> body]

NoCall == MkCall("none", <<>>, NoBody)

\* The arguments of fetch(): url, method, headers (Null: header not set), body
MkRequest(method, url, authorization, contentType, accept, userAgent, body) ==
    [method |-> method, url |-> url, authorization |-> authorization,
     contentType |-> contentType, accept |-> accept, userAgent |-> userAgent,
     body |-> body]

\* The fields of a Stream object
MkStreamObject(url, apiKey, body) == [url |-> url, apiKey |-> apiKey, body |-> body]

NoStreamObject == MkStreamObject(<<>>, Undefined, NoBody)

\* What chat.completions.create was called with (params.stream) and what it
\* returned ("Stream", "Promise", or "none" before the call)
MkCreated(kind, streamParam) == [kind |-> kind, stream |-> streamParam]

NotCreated == MkCreated("none", "undefined")

\* A client constructed with an API key and no other option
DefaultOptions == MkOptions("wl-key", UndefinedText, NoNumber, Undefined, UndefinedText)

DefaultClient == MkClient("wl-key", DEFAULT_BASE_URL)

ClientReady ==
    /\ opts = DefaultOptions
    /\ client = DefaultClient
    /\ cError = NoError

-----------------------------------------------------------------------------
(* client.ts *)

RETRYABLE_STATUS == {429, 500, 502, 503, 504}

BackoffBaseMs == 500

\* handleError without its 402 and 429 branches
handleError_NoSubclass(status, body, headers) ==
    LET msg == Coalesce(IF body.kind = "absent" THEN Undefined ELSE body.text,
                        "Request failed")
        requestId == Coalesce(headers.requestId, Undefined)
    IN  IF status = 401 THEN AuthenticationError(msg, requestId)
        ELSE APIError(msg, status, requestId)

\* handleError that reads the message of an object only
handleError_ObjectOnly(status, body, headers) ==
    LET errObj == body
        msg == Coalesce(IF errObj.kind = "object" THEN errObj.text ELSE Undefined,
                        "Request failed")
        requestId == Coalesce(headers.requestId, Undefined)
    IN  IF status = 401 THEN AuthenticationError(msg, requestId)
        ELSE IF status = 429 THEN
            LET ra == headers.retryAfter
                retryAfter == IF Truthy(ra) THEN ParseFloatMilli(ra) ELSE NoNumber
            IN  RateLimitError(msg, retryAfter, requestId)
        ELSE IF status = 402 THEN InsufficientCreditsError(msg, requestId)
        ELSE APIError(msg, status, requestId)

\* handleError that passes the request id to APIError only
handleError_RequestIdOnAPIError(status, body, headers) ==
    LET errObj == body
        msg == Coalesce(IF errObj.kind = "object" THEN errObj.text
                        ELSE IF errObj.kind = "string" THEN errObj.text
                        ELSE Undefined,
                        "Request failed")
        requestId == Coalesce(headers.requestId, Undefined)
    IN  IF status = 401 THEN AuthenticationError(msg, Undefined)
        ELSE IF status = 429 THEN
            LET ra == headers.retryAfter
                retryAfter == IF Truthy(ra) THEN ParseFloatMilli(ra) ELSE NoNumber
            IN  RateLimitError(msg, retryAfter, Undefined)
        ELSE IF status = 402 THEN InsufficientCreditsError(msg, Undefined)
        ELSE APIError(msg, status, requestId)

\* handleError(status, body, headers): the error it throws
handleError(status, body, headers) ==
    LET errObj == body
        msg == Coalesce(IF errObj.kind = "object" THEN errObj.text
                        ELSE IF errObj.kind = "string" THEN errObj.text
                        ELSE Undefined,
                        "Request failed")
        requestId == Coalesce(headers.requestId, Undefined)
    IN  IF status = 401 THEN AuthenticationError(msg, requestId)
        ELSE IF status = 429 THEN
            LET ra == headers.retryAfter
                retryAfter == IF Truthy(ra) THEN ParseFloatMilli(ra) ELSE NoNumber
            IN  RateLimitError(msg, retryAfter, requestId)
        ELSE IF status = 402 THEN InsufficientCreditsError(msg, requestId)
        ELSE APIError(msg, status, requestId)

\* The retry test with 408 in place of 504 in the retryable set
ShouldRetry_WrongSet(status, a) ==
    status \in {408, 429, 500, 502, 503} /\ a < maxRetries

\* The retry test with <= in place of <
ShouldRetry_OffByOne(status, a) == status \in RETRYABLE_STATUS /\ a <= maxRetries

\* The retry test of _request
ShouldRetry(status, a) == status \in RETRYABLE_STATUS /\ a < maxRetries

\* The delay with a backoff that grows linearly
RetryDelay_Linear(retryAfter, a) ==
    IF Truthy(retryAfter) THEN ParseFloatMilli(retryAfter)
    ELSE BackoffBaseMs * (a + 1)

\* The delay before the retry that follows attempt a
RetryDelay(retryAfter, a) ==
    IF Truthy(retryAfter) THEN ParseFloatMilli(retryAfter)
    ELSE BackoffBaseMs * 2^a

\* The catch block without the AbortError case
Catch_NoAbortCase(e) ==
    IF InstanceOfWaterlightError(e) THEN e
    ELSE APIError("Network error: " \o e.message, 0, Undefined)

\* The catch block without the instanceof WaterlightError case
Catch_NoRethrow(e) ==
    IF e.name = "AbortError" THEN APIError("Request timed out", 408, Undefined)
    ELSE APIError("Network error: " \o e.message, 0, Undefined)

\* The catch block of _request: the error it throws for the caught e
Catch(e) ==
    IF InstanceOfWaterlightError(e) THEN e
    ELSE IF e.name = "AbortError" THEN APIError("Request timed out", 408, Undefined)
    ELSE APIError("Network error: " \o e.message, 0, Undefined)

\* await res.json().catch(() => ({})) on a non-2xx response
ErrorData(body) == IF body.kind = "unparseable" THEN EmptyObject ELSE body

\* The id of the controller and timer of the attempt that is running
Cur == nFetch - 1

\* _post(path, body) of chat.completions.create without streaming, and
\* _get(path) of models.list
PostCall == MkCall("POST", ChatCompletionsPath, MkJsonBody("false"))

GetCall == MkCall("GET", ModelsPath, NoBody)

\* No non-2xx body has been read
NoErrorBody == MkBody("none", Undefined)

\* The client after construction, before _request is called
DispatcherInit ==
    /\ maxRetries \in 0..MaxRetriesBound
    /\ hasBody \in BOOLEAN
    /\ call = (IF hasBody THEN PostCall ELSE GetCall)
    /\ requests = <<>>
    /\ errorBody = NoErrorBody
    /\ pc = "idle"
    /\ attempt = 0
    /\ nFetch = 0
    /\ inFlight = {}
    /\ timers = {}
    /\ aborted = {}
    /\ res = NoResponse
    /\ delay = NoNumber
    /\ result = Undefined
    /\ error = NoError

DEFAULT_MAX_RETRIES == 2

\* A client with the default configuration, on which no _request is made
DispatcherAtRest ==
    /\ maxRetries = DEFAULT_MAX_RETRIES
    /\ hasBody = TRUE
    /\ call = NoCall
    /\ requests = <<>>
    /\ errorBody = NoErrorBody
    /\ pc = "idle"
    /\ attempt = 0
    /\ nFetch = 0
    /\ inFlight = {}
    /\ timers = {}
    /\ aborted = {}
    /\ res = NoResponse
    /\ delay = NoNumber
    /\ result = Undefined
    /\ error = NoError

\* The arguments of fetch() with the Authorization header on the first attempt only
RequestOf_AuthorizationOnce(c) ==
    MkRequest(c.method, client.baseUrl \o c.path,
              IF nFetch = 0 THEN "Bearer " \o client.apiKey ELSE Null,
              IF c.body.present THEN "application/json" ELSE Null,
              Null, USER_AGENT, c.body)

\* The arguments fetch() is given by _request for the call c
RequestOf(c) ==
    MkRequest(c.method, client.baseUrl \o c.path, "Bearer " \o client.apiKey,
              IF c.body.present THEN "application/json" ELSE Null,
              Null, USER_AGENT, c.body)

\* Top of the loop with the timer armed once, before the first attempt only
BeginAttempt_TimerOnce ==
    /\ timers' = (IF nFetch = 0 THEN timers \cup {nFetch} ELSE timers)
    /\ inFlight' = inFlight \cup {nFetch}
    /\ nFetch' = nFetch + 1
    /\ requests' = Append(requests, RequestOf(call))
    /\ pc' = "fetch"

\* Top of the loop: new AbortController, setTimeout, fetch(...)
BeginAttempt ==
    /\ timers' = timers \cup {nFetch}
    /\ inFlight' = inFlight \cup {nFetch}
    /\ nFetch' = nFetch + 1
    /\ requests' = Append(requests, RequestOf(call))
    /\ pc' = "fetch"

\* _request is called: attempt = 0 and the first attempt is issued
Request ==
    /\ pc = "idle"
    /\ attempt' = 0
    /\ BeginAttempt
    /\ UNCHANGED <<svars, cvars, call, maxRetries, hasBody, aborted, res, delay, result, error>>
    /\ UNCHANGED errorBody

\* The timeout callback of timer id runs: controller.abort()
TimerFires ==
    \E id \in timers :
        /\ timers' = timers \ {id}
        /\ aborted' = aborted \cup {id}
        /\ UNCHANGED <<svars, cvars, call, maxRetries, hasBody, pc, attempt, nFetch, inFlight, res,
                       delay, result, error>>
    /\ UNCHANGED <<requests, errorBody>>

\* fetch() resolves, without the clearTimeout that follows it
FetchResolves_NoClear ==
    /\ pc = "fetch"
    /\ Cur \notin aborted
    /\ \E r \in Responses :
        /\ res' = Answer(r, Cur)
        /\ inFlight' = inFlight \ {Cur}
        /\ IF ~Ok(r.status)
           THEN IF ShouldRetry(r.status, attempt)
                THEN /\ delay' = RetryDelay(r.retryAfter, attempt)
                     /\ pc' = "sleep"
                ELSE /\ pc' = "errBody"
                     /\ UNCHANGED delay
           ELSE /\ pc' = "okBody"
                /\ UNCHANGED delay
    /\ UNCHANGED <<svars, cvars, call, maxRetries, hasBody, attempt, nFetch, timers, aborted, result,
                   error>>
    /\ UNCHANGED <<requests, errorBody>>

\* fetch() resolves, and the retry is issued without awaiting sleep(delay)
FetchResolves_NoSleep ==
    /\ pc = "fetch"
    /\ Cur \notin aborted
    /\ \E r \in Responses :
        /\ res' = Answer(r, Cur)
        /\ IF ~Ok(r.status)
           THEN IF ShouldRetry(r.status, attempt)
                THEN /\ delay' = RetryDelay(r.retryAfter, attempt)
                     /\ attempt' = attempt + 1
                     /\ timers' = (timers \ {Cur}) \cup {nFetch}
                     /\ inFlight' = (inFlight \ {Cur}) \cup {nFetch}
                     /\ nFetch' = nFetch + 1
                     /\ requests' = Append(requests, RequestOf(call))
                     /\ pc' = "fetch"
                ELSE /\ pc' = "errBody"
                     /\ timers' = timers \ {Cur}
                     /\ inFlight' = inFlight \ {Cur}
                     /\ UNCHANGED <<delay, attempt, nFetch, requests>>
           ELSE /\ pc' = "okBody"
                /\ timers' = timers \ {Cur}
                /\ inFlight' = inFlight \ {Cur}
                /\ UNCHANGED <<delay, attempt, nFetch, requests>>
    /\ UNCHANGED <<svars, cvars, call, maxRetries, hasBody, aborted, result, error>>
    /\ UNCHANGED errorBody

\* fetch() resolves, with clearTimeout called for a non-2xx response only
FetchResolves_ClearOnError ==
    /\ pc = "fetch"
    /\ Cur \notin aborted
    /\ \E r \in Responses :
        /\ res' = Answer(r, Cur)
        /\ timers' = (IF Ok(r.status) THEN timers ELSE timers \ {Cur})
        /\ inFlight' = inFlight \ {Cur}
        /\ IF ~Ok(r.status)
           THEN IF ShouldRetry(r.status, attempt)
                THEN /\ delay' = RetryDelay(r.retryAfter, attempt)
                     /\ pc' = "sleep"
                ELSE /\ pc' = "errBody"
                     /\ UNCHANGED delay
           ELSE /\ pc' = "okBody"
                /\ UNCHANGED delay
    /\ UNCHANGED <<svars, cvars, call, maxRetries, hasBody, attempt, nFetch, aborted, result, error>>
    /\ UNCHANGED <<requests, errorBody>>

\* fetch() resolves with a Response: clearTimeout, then the status test
FetchResolves ==
    /\ pc = "fetch"
    /\ Cur \notin aborted
    /\ \E r \in Responses :
        /\ res' = Answer(r, Cur)
        /\ timers' = timers \ {Cur}
        /\ inFlight' = inFlight \ {Cur}
        /\ IF ~Ok(r.status)
           THEN IF ShouldRetry(r.status, attempt)
                THEN /\ delay' = RetryDelay(r.retryAfter, attempt)
                     /\ pc' = "sleep"
                ELSE /\ pc' = "errBody"
                     /\ UNCHANGED delay
           ELSE /\ pc' = "okBody"
                /\ UNCHANGED delay
    /\ UNCHANGED <<svars, cvars, call, maxRetries, hasBody, attempt, nFetch, aborted, result, error>>
    /\ UNCHANGED <<requests, errorBody>>

\* The loop sleeping again after the sleep instead of issuing the next attempt
SleepElapses_SleepsAgain ==
    /\ pc = "sleep"
    /\ UNCHANGED vars

\* sleep(delay) resolves: attempt++, continue, and the next attempt is issued
SleepElapses ==
    /\ pc = "sleep"
    /\ attempt' = attempt + 1
    /\ BeginAttempt
    /\ UNCHANGED <<svars, cvars, call, maxRetries, hasBody, aborted, res, delay, result, error>>
    /\ UNCHANGED errorBody

\* The body of a non-2xx response has been read: handleError throws, the catch
\* block clears the timer and rethrows
ErrorBodyRead ==
    /\ pc = "errBody"
    /\ \E body \in ErrorBodies :
        /\ errorBody' = body
        /\ error' = Catch(handleError(res.status, ErrorData(body), res))
    /\ timers' = timers \ {Cur}
    /\ pc' = "raised"
    /\ UNCHANGED <<svars, cvars, call, maxRetries, hasBody, attempt, nFetch, inFlight, aborted, res,
                   delay, result>>
    /\ UNCHANGED requests

\* The body of a 2xx response parses: _request returns it
OkBodyParsed ==
    /\ pc = "okBody"
    /\ Cur \notin aborted
    /\ \E v \in OkValues : result' = v
    /\ pc' = "returned"
    /\ UNCHANGED <<svars, cvars, call, maxRetries, hasBody, attempt, nFetch, inFlight, timers, aborted,
                   res, delay, error>>
    /\ UNCHANGED <<requests, errorBody>>

\* res.json() of a 2xx response rejects and the call returns an empty object,
\* as the .catch(() => ({})) of the non-2xx path would
OkBodyFails_ReturnsEmpty ==
    /\ pc = "okBody"
    /\ result' = "{}"
    /\ pc' = "returned"
    /\ UNCHANGED <<svars, cvars, call, maxRetries, hasBody, attempt, nFetch, inFlight, timers,
                   aborted, res, delay, error>>
    /\ UNCHANGED <<requests, errorBody>>

\* res.json() of a 2xx response rejects: the catch block wraps the error
OkBodyFails ==
    /\ pc = "okBody"
    /\ \E e \in (IF Cur \in aborted THEN {AbortError} ELSE BodyErrors) :
        error' = Catch(e)
    /\ timers' = timers \ {Cur}
    /\ pc' = "raised"
    /\ UNCHANGED <<svars, cvars, call, maxRetries, hasBody, attempt, nFetch, inFlight, aborted, res,
                   delay, result>>
    /\ UNCHANGED <<requests, errorBody>>

\* fetch() rejects because the controller was aborted
FetchAborted ==
    /\ pc = "fetch"
    /\ Cur \in aborted
    /\ error' = Catch(AbortError)
    /\ timers' = timers \ {Cur}
    /\ inFlight' = inFlight \ {Cur}
    /\ pc' = "raised"
    /\ UNCHANGED <<svars, cvars, call, maxRetries, hasBody, attempt, nFetch, aborted, res, delay, result>>
    /\ UNCHANGED <<requests, errorBody>>

\* A transport error that is retried like a retryable status
FetchFails_Retried ==
    /\ pc = "fetch"
    /\ Cur \notin aborted
    /\ timers' = timers \ {Cur}
    /\ inFlight' = inFlight \ {Cur}
    /\ IF attempt < maxRetries
       THEN /\ delay' = RetryDelay(Null, attempt)
            /\ pc' = "sleep"
            /\ UNCHANGED error
       ELSE /\ \E e \in NetworkErrors : error' = Catch(e)
            /\ pc' = "raised"
            /\ UNCHANGED delay
    /\ UNCHANGED <<svars, cvars, call, maxRetries, hasBody, attempt, nFetch, aborted, res, result>>
    /\ UNCHANGED <<requests, errorBody>>

\* fetch() rejects with a transport error
FetchFails ==
    /\ pc = "fetch"
    /\ Cur \notin aborted
    /\ \E e \in NetworkErrors : error' = Catch(e)
    /\ timers' = timers \ {Cur}
    /\ inFlight' = inFlight \ {Cur}
    /\ pc' = "raised"
    /\ UNCHANGED <<svars, cvars, call, maxRetries, hasBody, attempt, nFetch, aborted, res, delay, result>>
    /\ UNCHANGED <<requests, errorBody>>

-----------------------------------------------------------------------------
(* Text: a string is a sequence of one-character strings.  A byte of the    *)
(* body is the character it encodes, except the two bytes of a two-byte     *)
(* UTF-8 character, which are "C3" and "A9" and decode to the character     *)
(* "e'".                                                                    *)

NL == "\n"
LeadByte == "C3"
ContinuationByte == "A9"
Accented == "e'"
Replacement == "U+FFFD"

\* decoder.decode(value) without { stream: true }: every chunk is decoded on
\* its own, so a lead byte at the end of a chunk and the continuation byte at
\* the start of the next each decode to U+FFFD
Decode_NoStream(held, value) ==
    LET n == Len(value)
        Skip == "<skip>"
        at(i) ==
            IF value[i] = LeadByte
            THEN IF i < n /\ value[i + 1] = ContinuationByte THEN Accented
                 ELSE Replacement
            ELSE IF value[i] = ContinuationByte
            THEN IF i > 1 /\ value[i - 1] = LeadByte THEN Skip ELSE Replacement
            ELSE value[i]
        NotSkip(c) == c # Skip
    IN  [text |-> SelectSeq([i \in 1..n |-> at(i)], NotSkip), held |-> <<>>]

\* TextDecoder.decode(value, {stream: true}): the text decoded from the held
\* bytes followed by value, and the bytes held back for the next call.  A
\* lead byte and the continuation byte after it make one character; a lead
\* byte at the end is held back; a lead byte followed by anything else, and a
\* continuation byte that follows no lead byte, decode to U+FFFD.
Decode(held, value) ==
    LET all == held \o value
        n == Len(all)
        Skip == "<skip>"
        at(i) ==
            IF all[i] = LeadByte
            THEN IF i = n THEN Skip
                 ELSE IF all[i + 1] = ContinuationByte THEN Accented
                 ELSE Replacement
            ELSE IF all[i] = ContinuationByte
            THEN IF i > 1 /\ all[i - 1] = LeadByte THEN Skip ELSE Replacement
            ELSE all[i]
        NotSkip(c) == c # Skip
    IN  [text |-> SelectSeq([i \in 1..n |-> at(i)], NotSkip),
         held |-> IF n > 0 /\ all[n] = LeadByte THEN <<LeadByte>> ELSE <<>>]

\* s.indexOf(NL NL), 0-based, -1 when absent
IndexOfBlankLine(s) ==
    LET at == {i \in 1..(Len(s) - 1) : s[i] = NL /\ s[i + 1] = NL}
    IN  IF at = {} THEN -1
        ELSE (CHOOSE i \in at : \A j \in at : i <= j) - 1

\* s.slice(from), 0-based
SliceFrom(s, from) == SubSeq(s, from + 1, Len(s))

\* s.slice(0, to), 0-based, to excluded
SliceTo(s, to) == SubSeq(s, 1, to)

\* s.split(NL)
RECURSIVE Split(_)
Split(s) ==
    LET at == {i \in 1..Len(s) : s[i] = NL}
    IN  IF at = {} THEN <<s>>
        ELSE LET i == CHOOSE k \in at : \A j \in at : k <= j
             IN  <<SliceTo(s, i - 1)>> \o Split(SliceFrom(s, i))

DataPrefix == <<"d", "a", "t", "a", ":">>

\* line.startsWith(prefix)
StartsWith(line, prefix) ==
    Len(line) >= Len(prefix) /\ SubSeq(line, 1, Len(prefix)) = prefix

WhiteSpace == {" ", "\t", "\r", NL}

\* s.trim()
RECURSIVE Trim(_)
Trim(s) ==
    IF s = <<>> THEN s
    ELSE IF Head(s) \in WhiteSpace THEN Trim(Tail(s))
    ELSE IF s[Len(s)] \in WhiteSpace THEN Trim(SubSeq(s, 1, Len(s) - 1))
    ELSE s

DONE == <<"[", "D", "O", "N", "E", "]">>

Digits == {"0", "1", "2", "3", "4", "5", "6", "7", "8", "9"}

\* Whether JSON.parse(t) returns rather than throws, for the texts of the
\* model: a number without sign, fraction or exponent, or a string literal
\* without escapes
ParsesAsJSON(t) ==
    \/ /\ t # <<>>
       /\ \A i \in 1..Len(t) : t[i] \in Digits
       /\ Len(t) > 1 => t[1] # "0"
    \/ /\ Len(t) >= 2
       /\ t[1] = "\"" /\ t[Len(t)] = "\""
       /\ \A i \in 2..(Len(t) - 1) : t[i] \notin {"\"", "\\", NL, "\r", "\t"}

\* JSON.parse(t) of a text that parses: the value, written canonically
JSONParse(t) == t

-----------------------------------------------------------------------------
(* streaming.ts *)

MAX_SSE_BUFFER == 10 * BufferUnit * BufferUnit

\* The generator without the test for the sentinel
RECURSIVE Process_NoSentinel(_, _)
Process_NoSentinel(buf, rest) ==
    IF rest # <<>>
    THEN LET line == Head(rest)
             data == Trim(SliceFrom(line, 5))
         IN  IF ~StartsWith(line, DataPrefix) THEN Process_NoSentinel(buf, Tail(rest))
             ELSE IF ParsesAsJSON(data)
                  THEN [kind |-> "yield", event |-> JSONParse(data), buf |-> buf,
                        rest |-> Tail(rest)]
             ELSE Process_NoSentinel(buf, Tail(rest))
    ELSE LET boundary == IndexOfBlankLine(buf)
         IN  IF boundary = -1
             THEN [kind |-> "read", event |-> <<>>, buf |-> buf, rest |-> <<>>]
             ELSE Process_NoSentinel(SliceFrom(buf, boundary + 2),
                                     Split(SliceTo(buf, boundary)))

\* The generator with a JSON.parse failure ending the traversal
RECURSIVE Process_StopsOnMalformed(_, _)
Process_StopsOnMalformed(buf, rest) ==
    IF rest # <<>>
    THEN LET line == Head(rest)
             data == Trim(SliceFrom(line, 5))
         IN  IF ~StartsWith(line, DataPrefix)
             THEN Process_StopsOnMalformed(buf, Tail(rest))
             ELSE IF data = DONE
                  THEN [kind |-> "return", event |-> <<>>, buf |-> buf, rest |-> <<>>]
             ELSE IF ParsesAsJSON(data)
                  THEN [kind |-> "yield", event |-> JSONParse(data), buf |-> buf,
                        rest |-> Tail(rest)]
             ELSE [kind |-> "return", event |-> <<>>, buf |-> buf, rest |-> <<>>]
    ELSE LET boundary == IndexOfBlankLine(buf)
         IN  IF boundary = -1
             THEN [kind |-> "read", event |-> <<>>, buf |-> buf, rest |-> <<>>]
             ELSE Process_StopsOnMalformed(SliceFrom(buf, boundary + 2),
                                           Split(SliceTo(buf, boundary)))

\* The generator visiting the first line of each rawEvent only
RECURSIVE Process_FirstLineOnly(_, _)
Process_FirstLineOnly(buf, rest) ==
    IF rest # <<>>
    THEN LET line == Head(rest)
             data == Trim(SliceFrom(line, 5))
         IN  IF ~StartsWith(line, DataPrefix) THEN Process_FirstLineOnly(buf, <<>>)
             ELSE IF data = DONE
                  THEN [kind |-> "return", event |-> <<>>, buf |-> buf, rest |-> <<>>]
             ELSE IF ParsesAsJSON(data)
                  THEN [kind |-> "yield", event |-> JSONParse(data), buf |-> buf,
                        rest |-> <<>>]
             ELSE Process_FirstLineOnly(buf, <<>>)
    ELSE LET boundary == IndexOfBlankLine(buf)
         IN  IF boundary = -1
             THEN [kind |-> "read", event |-> <<>>, buf |-> buf, rest |-> <<>>]
             ELSE Process_FirstLineOnly(SliceFrom(buf, boundary + 2),
                                        Split(SliceTo(buf, boundary)))

\* The generator running from the point after a read, or after a yield, to
\* its next suspension: the while loop over complete events and the for loop
\* over the lines of one event.  rest: the lines of the current rawEvent not
\* yet visited.  The result says where the generator stops: at a yield (with
\* the event), at the return of the sentinel, or at the next reader.read().
RECURSIVE Process(_, _)
Process(buf, rest) ==
    IF rest # <<>>
    THEN LET line == Head(rest)
             data == Trim(SliceFrom(line, 5))
         IN  IF ~StartsWith(line, DataPrefix) THEN Process(buf, Tail(rest))
             ELSE IF data = DONE
                  THEN [kind |-> "return", event |-> <<>>, buf |-> buf, rest |-> <<>>]
             ELSE IF ParsesAsJSON(data)
                  THEN [kind |-> "yield", event |-> JSONParse(data), buf |-> buf,
                        rest |-> Tail(rest)]
             ELSE Process(buf, Tail(rest))
    ELSE LET boundary == IndexOfBlankLine(buf)
         IN  IF boundary = -1
             THEN [kind |-> "read", event |-> <<>>, buf |-> buf, rest |-> <<>>]
             ELSE Process(SliceFrom(buf, boundary + 2),
                          Split(SliceTo(buf, boundary)))

\* Statuses of the response to the streaming request
StreamStatuses == {200, 401, 402, 429, 500, 502, 503, 504}

\* What res.text() of a non-2xx streaming response gives ('' when it rejects)
ErrorTexts == {"", "Server Error"}

\* Bodies of a streaming response.  head: the bytes up to the end of the
\* event that holds the first sentinel line (the whole body when there is
\* none); tail: the bytes after it; events: the payloads of the data lines
\* of complete events before the sentinel that are JSON, in order.
Data(payload) == DataPrefix \o payload

MkStream(head, tail, hasDone, events) ==
    [head |-> head, tail |-> tail, hasDone |-> hasDone, events |-> events]

Filler(n) == [i \in 1..n |-> "x"]

StreamDoneThenMore ==
    MkStream(Data(<<" ", "1">>) \o <<NL, NL>> \o Data(<<" ">> \o DONE) \o <<NL, NL>>,
             Data(<<" ", "2">>) \o <<NL, NL>>,
             TRUE, << <<"1">> >>)

StreamMalformed ==
    MkStream(Data(<<"1">>) \o <<NL, NL>> \o Data(<<"{", "x">>) \o <<NL, NL>>
                \o Data(<<"2">>) \o <<NL, NL>> \o Data(DONE) \o <<NL, NL>>,
             <<>>,
             TRUE, << <<"1">>, <<"2">> >>)

StreamDoneInsideEvent ==
    MkStream(Data(<<"1">>) \o <<NL>> \o Data(<<" ">> \o DONE \o <<" ">>) \o <<NL>>
                \o Data(<<"2">>) \o <<NL, NL>>,
             Data(<<"3">>) \o <<NL, NL>>,
             TRUE, << <<"1">> >>)

StreamNoSentinel ==
    MkStream(<<":", "k", NL>> \o Data(<<"1">>) \o <<NL, NL>> \o Data(<<"2">>),
             <<>>,
             FALSE, << <<"1">> >>)

StreamTwoByteCharacter ==
    MkStream(Data(<<"\"", LeadByte, ContinuationByte, "\"">>) \o <<NL, NL>>,
             <<>>,
             FALSE, << <<"\"", Accented, "\"">> >>)

StreamNoDelimiter ==
    MkStream(Data(Filler(MAX_SSE_BUFFER)), <<>>, FALSE, <<>>)

\* MAX_SSE_BUFFER / 2 two-byte characters after the prefix, no delimiter: more
\* bytes than MAX_SSE_BUFFER, fewer characters
StreamTwoByteNoDelimiter ==
    MkStream(Data([i \in 1..MAX_SSE_BUFFER |->
                      IF i % 2 = 1 THEN LeadByte ELSE ContinuationByte]),
             <<>>, FALSE, <<>>)

\* Three events, the second as long as MAX_SSE_BUFFER with its delimiter:
\* the body is longer than MAX_SSE_BUFFER, none of its events is
StreamLongEvent ==
    MkStream(Data(<<"1">>) \o <<NL, NL>> \o Data(Filler(MAX_SSE_BUFFER - 7)) \o <<NL, NL>>
                \o Data(<<"2">>) \o <<NL, NL>>,
             <<>>, FALSE, << <<"1">>, <<"2">> >>)

\* An event, then the sentinel line in a frame that the end of the body leaves
\* without its blank line
StreamTrailingDone ==
    MkStream(Data(<<"1">>) \o <<NL, NL>> \o Data(DONE) \o <<NL>>,
             <<>>, FALSE, << <<"1">> >>)

Streams ==
    {StreamDoneThenMore, StreamMalformed, StreamDoneInsideEvent, StreamNoSentinel,
     StreamTwoByteCharacter, StreamNoDelimiter, StreamTwoByteNoDelimiter,
     StreamLongEvent, StreamTrailingDone}

NoStream == MkStream(<<>>, <<>>, FALSE, <<>>)

\* One event of eight bytes, delimiter included
ShortFrame == Data(<<"1">>) \o <<NL, NL>>

\* As many of those events as it takes to be longer than MAX_SSE_BUFFER: every
\* frame is far shorter than the bound, the body is not
StreamShortFrames ==
    LET n == (MAX_SSE_BUFFER \div Len(ShortFrame)) + 1
    IN  MkStream([i \in 1..(n * Len(ShortFrame)) |->
                     ShortFrame[((i - 1) % Len(ShortFrame)) + 1]],
                 <<>>, FALSE, [i \in 1..n |-> <<"1">>])

\* new Stream(url, apiKey, params, timeout) as Completions.create calls it
\* for the client c and params.stream = streamParam: the body is
\* JSON.stringify({ ...params, stream: true })
NewStream(c, streamParam) ==
    MkStreamObject(c.baseUrl \o ChatCompletionsPath, c.apiKey, MkJsonBody("true"))

\* The arguments fetch() is given by the traversal of the Stream object o
StreamRequestOf(o) ==
    MkRequest("POST", o.url, "Bearer " \o o.apiKey, "application/json",
              "text/event-stream", USER_AGENT, o.body)

\* A constructor that issues the request and arms the timer itself
StreamInit_Eager ==
    /\ spc = "connect"
    /\ sFetch = 1
    /\ sStatus = 0
    /\ sTimer = TRUE
    /\ sAborted = FALSE
    /\ sent = NoStream
    /\ wire = <<>>
    /\ pending = <<>>
    /\ buffer = <<>>
    /\ lines = <<>>
    /\ emitted = <<>>
    /\ nReads = 0
    /\ readerHeld = FALSE
    /\ nRelease = 0
    /\ sError = NoError
    /\ readDone = FALSE
    /\ abandoned = FALSE
    /\ stream = NewStream(client, "true")
    /\ created = MkCreated("Stream", "true")
    /\ sRequests = <<StreamRequestOf(NewStream(client, "true"))>>
    /\ injected = FALSE

\* The Stream after construction: nothing has been issued
StreamInit ==
    /\ spc = "new"
    /\ sFetch = 0
    /\ sStatus = 0
    /\ sTimer = FALSE
    /\ sAborted = FALSE
    /\ sent = NoStream
    /\ wire = <<>>
    /\ pending = <<>>
    /\ buffer = <<>>
    /\ lines = <<>>
    /\ emitted = <<>>
    /\ nReads = 0
    /\ readerHeld = FALSE
    /\ nRelease = 0
    /\ sError = NoError
    /\ readDone = FALSE
    /\ abandoned = FALSE
    /\ stream = NewStream(client, "true")
    /\ created = MkCreated("Stream", "true")
    /\ sRequests = <<>>
    /\ injected = FALSE

\* The finally block without reader.releaseLock()
Finally_NoRelease ==
    /\ sTimer' = FALSE
    /\ UNCHANGED <<readerHeld, nRelease>>

\* The finally block: clearTimeout(timer); reader.releaseLock()
Finally ==
    /\ sTimer' = FALSE
    /\ readerHeld' = FALSE
    /\ nRelease' = nRelease + 1

\* The generator runs on from buf and rest to its next suspension
Advance(buf, rest) ==
    LET r == Process(buf, rest)
    IN  /\ buffer' = r.buf
        /\ lines' = r.rest
        /\ IF r.kind = "yield"
           THEN /\ emitted' = Append(emitted, r.event)
                /\ spc' = "yield"
                /\ UNCHANGED <<nReads, sTimer, readerHeld, nRelease>>
           ELSE IF r.kind = "return"
           THEN /\ Finally
                /\ spc' = "done"
                /\ UNCHANGED <<emitted, nReads>>
           ELSE /\ nReads' = nReads + 1
                /\ spc' = "read"
                /\ UNCHANGED <<emitted, sTimer, readerHeld, nRelease>>

\* The consumer's first next(): the controller, the timer and fetch(...)
Pull ==
    /\ spc = "new"
    /\ sTimer' = TRUE
    /\ sFetch' = sFetch + 1
    /\ sRequests' = Append(sRequests, StreamRequestOf(stream))
    /\ spc' = "connect"
    /\ UNCHANGED <<cvars, dvars, stream, created, injected, readDone, abandoned, sStatus, sAborted, sent, wire, pending, buffer, lines, emitted,
                   nReads, readerHeld, nRelease, sError>>

\* A timeout callback of the traversal that aborts the controller of the
\* logical call's running attempt as well
StreamTimerFires_SharedController ==
    /\ sTimer
    /\ sTimer' = FALSE
    /\ sAborted' = TRUE
    /\ aborted' = aborted \cup inFlight
    /\ UNCHANGED <<cvars, stream, created, sRequests, injected, readDone, abandoned, spc, sFetch, sStatus,
                   sent, wire, pending, buffer, lines, emitted, nReads, readerHeld, nRelease,
                   sError>>
    /\ UNCHANGED <<maxRetries, hasBody, pc, attempt, nFetch, inFlight, timers, res, delay,
                   result, error, call, requests, errorBody>>

\* The timeout callback of the traversal runs: controller.abort()
StreamTimerFires ==
    /\ sTimer
    /\ sTimer' = FALSE
    /\ sAborted' = TRUE
    /\ UNCHANGED <<cvars, dvars, stream, created, sRequests, injected, readDone, abandoned, spc, sFetch, sStatus, sent, wire, pending, buffer, lines, emitted,
                   nReads, readerHeld, nRelease, sError>>

\* fetch() resolves with a 2xx response: getReader(), and the first read
ConnectOk ==
    /\ spc = "connect"
    /\ ~sAborted
    /\ \E status \in {s \in StreamStatuses : Ok(s)}, body \in Streams :
        /\ sStatus' = status
        /\ sent' = body
        /\ wire' = body.head \o body.tail
    /\ readerHeld' = TRUE
    /\ pending' = <<>>
    /\ buffer' = <<>>
    /\ nReads' = nReads + 1
    /\ spc' = "read"
    /\ UNCHANGED <<cvars, dvars, stream, created, sRequests, injected, readDone, abandoned, sFetch, sTimer, sAborted, lines, emitted, nRelease, sError>>

\* fetch() resolves with a 2xx response whose body is a long run of short
\* events: getReader(), and the first read
ConnectOkShortFrames ==
    /\ spc = "connect"
    /\ ~sAborted
    /\ \E status \in {s \in StreamStatuses : Ok(s)} :
        /\ sStatus' = status
        /\ sent' = StreamShortFrames
        /\ wire' = StreamShortFrames.head \o StreamShortFrames.tail
    /\ readerHeld' = TRUE
    /\ pending' = <<>>
    /\ buffer' = <<>>
    /\ nReads' = nReads + 1
    /\ spc' = "read"
    /\ UNCHANGED <<cvars, dvars, stream, created, sRequests, injected, readDone, abandoned,
                   sFetch, sTimer, sAborted, lines, emitted, nRelease, sError>>

\* ConnectNotOk with the retry of _request: a retryable status is answered
\* with another fetch while attempts are left
ConnectNotOk_Retries ==
    /\ spc = "connect"
    /\ ~sAborted
    /\ \E status \in {s \in StreamStatuses : ~Ok(s)} :
        /\ sStatus' = status
        /\ IF status \in RETRYABLE_STATUS /\ sFetch <= maxRetries
           THEN /\ sFetch' = sFetch + 1
                /\ sRequests' = Append(sRequests, StreamRequestOf(stream))
                /\ spc' = "connect"
           ELSE /\ spc' = "errText"
                /\ UNCHANGED <<sFetch, sRequests>>
    /\ UNCHANGED <<cvars, dvars, stream, created, injected, readDone, abandoned, sTimer,
                   sAborted, sent, wire, pending, buffer, lines, emitted, nReads, readerHeld,
                   nRelease, sError>>

\* fetch() resolves with a non-2xx response: res.text() is awaited
ConnectNotOk ==
    /\ spc = "connect"
    /\ ~sAborted
    /\ \E status \in {s \in StreamStatuses : ~Ok(s)} : sStatus' = status
    /\ spc' = "errText"
    /\ UNCHANGED <<cvars, dvars, stream, created, sRequests, injected, readDone, abandoned, sFetch, sTimer, sAborted, sent, wire, pending, buffer,
                   lines, emitted, nReads, readerHeld, nRelease, sError>>

\* ErrorTextRead with the status classification of the non-streaming path
ErrorTextRead_Classified ==
    /\ spc = "errText"
    /\ \E errMsg \in ErrorTexts :
        sError' = handleError(sStatus, MkBody("string", errMsg),
                              MkResponse(sStatus, Null, Null))
    /\ spc' = "threw"
    /\ UNCHANGED <<cvars, dvars, stream, created, sRequests, injected, readDone, abandoned, sFetch, sStatus, sTimer, sAborted, sent,
                   wire, pending, buffer, lines, emitted, nReads, readerHeld, nRelease>>

\* ErrorTextRead throwing an APIError
ErrorTextRead_APIError ==
    /\ spc = "errText"
    /\ \E errMsg \in ErrorTexts :
        sError' = APIError("Streaming error: " \o ToString(sStatus) \o " " \o errMsg,
                           sStatus, Undefined)
    /\ spc' = "threw"
    /\ UNCHANGED <<cvars, dvars, stream, created, sRequests, injected, readDone, abandoned, sFetch, sStatus, sTimer, sAborted, sent,
                   wire, pending, buffer, lines, emitted, nReads, readerHeld, nRelease>>

\* res.text() settles, with the text or (errMsg left '') with a rejection:
\* the WaterlightError is thrown
ErrorTextRead ==
    /\ spc = "errText"
    /\ \E errMsg \in ErrorTexts :
        sError' = WaterlightError("Streaming error: " \o ToString(sStatus) \o " "
                                     \o errMsg,
                                  sStatus, Undefined)
    /\ spc' = "threw"
    /\ UNCHANGED <<cvars, dvars, stream, created, sRequests, injected, readDone, abandoned, sFetch, sStatus, sTimer, sAborted, sent, wire, pending,
                   buffer, lines, emitted, nReads, readerHeld, nRelease>>

\* ConnectAborted without the AbortError case of the catch block
ConnectAborted_AsNetworkError ==
    /\ spc = "connect"
    /\ sAborted
    /\ sTimer' = FALSE
    /\ sError' = APIError("Network error: " \o AbortError.message, 0, Undefined)
    /\ spc' = "threw"
    /\ UNCHANGED <<cvars, dvars, stream, created, sRequests, injected, readDone, abandoned, sFetch, sStatus, sAborted, sent, wire,
                   pending, buffer, lines, emitted, nReads, readerHeld, nRelease>>

\* fetch() rejects because the controller was aborted
ConnectAborted ==
    /\ spc = "connect"
    /\ sAborted
    /\ sTimer' = FALSE
    /\ sError' = APIError("Stream request timed out", 408, Undefined)
    /\ spc' = "threw"
    /\ UNCHANGED <<cvars, dvars, stream, created, sRequests, injected, readDone, abandoned, sFetch, sStatus, sAborted, sent, wire, pending, buffer, lines,
                   emitted, nReads, readerHeld, nRelease>>

\* fetch() rejects with a transport error
ConnectFails ==
    /\ spc = "connect"
    /\ ~sAborted
    /\ sTimer' = FALSE
    /\ \E e \in NetworkErrors :
        sError' = APIError("Network error: " \o e.message, 0, Undefined)
    /\ spc' = "threw"
    /\ UNCHANGED <<cvars, dvars, stream, created, sRequests, injected, readDone, abandoned, sFetch, sStatus, sAborted, sent, wire, pending, buffer, lines,
                   emitted, nReads, readerHeld, nRelease>>

\* ReadChunk with the overflow test buffer.length >= MAX_SSE_BUFFER
ReadChunk_OverflowAtBound ==
    /\ spc = "read"
    /\ ~sAborted
    /\ \E n \in 1..Len(wire) :
        LET d == Decode(pending, SubSeq(wire, 1, n))
            buf == buffer \o d.text
        IN  /\ wire' = SubSeq(wire, n + 1, Len(wire))
            /\ pending' = d.held
            /\ IF Len(buf) >= MAX_SSE_BUFFER
               THEN /\ sError' = APIError("SSE buffer overflow", 0, Undefined)
                    /\ Finally
                    /\ buffer' = buf
                    /\ spc' = "threw"
                    /\ UNCHANGED <<lines, emitted, nReads>>
               ELSE /\ Advance(buf, <<>>)
                    /\ UNCHANGED sError
    /\ UNCHANGED <<cvars, dvars, stream, created, sRequests, injected, readDone, abandoned, sFetch, sStatus, sAborted, sent>>

\* ReadChunk keeping the last MAX_SSE_BUFFER characters instead of throwing
ReadChunk_Truncates ==
    /\ spc = "read"
    /\ ~sAborted
    /\ \E n \in 1..Len(wire) :
        LET d == Decode(pending, SubSeq(wire, 1, n))
            buf == buffer \o d.text
        IN  /\ wire' = SubSeq(wire, n + 1, Len(wire))
            /\ pending' = d.held
            /\ IF Len(buf) > MAX_SSE_BUFFER
               THEN Advance(SubSeq(buf, Len(buf) - MAX_SSE_BUFFER + 1, Len(buf)), <<>>)
               ELSE Advance(buf, <<>>)
            /\ UNCHANGED sError
    /\ UNCHANGED <<cvars, dvars, stream, created, sRequests, injected, readDone, abandoned, sFetch, sStatus, sAborted, sent>>

\* reader.read() resolves with the next n bytes: decode, the overflow test,
\* then the events of the buffer
ReadChunk ==
    /\ spc = "read"
    /\ ~sAborted
    /\ \E n \in 1..Len(wire) :
        LET d == Decode(pending, SubSeq(wire, 1, n))
            buf == buffer \o d.text
        IN  /\ wire' = SubSeq(wire, n + 1, Len(wire))
            /\ pending' = d.held
            /\ IF Len(buf) > MAX_SSE_BUFFER
               THEN /\ sError' = APIError("SSE buffer overflow", 0, Undefined)
                    /\ Finally
                    /\ buffer' = buf
                    /\ spc' = "threw"
                    /\ UNCHANGED <<lines, emitted, nReads>>
               ELSE /\ Advance(buf, <<>>)
                    /\ UNCHANGED sError
    /\ UNCHANGED <<cvars, dvars, stream, created, sRequests, injected, readDone, abandoned, sFetch, sStatus, sAborted, sent>>

\* ReadDone handing over what the buffer still holds as a last frame
ReadDone_Flushes ==
    /\ spc = "read"
    /\ ~sAborted
    /\ wire = <<>>
    /\ readDone' = TRUE
    /\ Finally
    /\ LET r == Process(buffer \o <<NL, NL>>, <<>>)
       IN  emitted' = (IF r.kind = "yield" THEN Append(emitted, r.event) ELSE emitted)
    /\ spc' = "done"
    /\ UNCHANGED <<cvars, dvars, stream, created, sRequests, injected, abandoned, sFetch,
                   sStatus, sAborted, sent, wire, pending, buffer, lines, nReads, sError>>

\* ReadDone treating the end of the body without a sentinel as an error
ReadDone_Raises ==
    /\ spc = "read"
    /\ ~sAborted
    /\ wire = <<>>
    /\ readDone' = TRUE
    /\ Finally
    /\ sError' = APIError("Stream ended without [DONE]", 0, Undefined)
    /\ spc' = "threw"
    /\ UNCHANGED <<cvars, dvars, stream, created, sRequests, injected, abandoned, sFetch, sStatus, sAborted, sent, wire, pending, buffer,
                   lines, emitted, nReads>>

\* reader.read() resolves with done: break, and the finally block
ReadDone ==
    /\ spc = "read"
    /\ ~sAborted
    /\ wire = <<>>
    /\ readDone' = TRUE
    /\ Finally
    /\ spc' = "done"
    /\ UNCHANGED <<cvars, dvars, stream, created, sRequests, injected, abandoned, sFetch, sStatus, sAborted, sent, wire, pending, buffer, lines,
                   emitted, nReads, sError>>

\* reader.read() rejects, with the abort when the controller was aborted:
\* the finally block runs and the error leaves the generator as it is
ReadFails ==
    /\ spc = "read"
    /\ \E e \in (IF sAborted THEN {AbortError} ELSE NetworkErrors) : sError' = e
    /\ Finally
    /\ spc' = "threw"
    /\ UNCHANGED <<cvars, dvars, stream, created, sRequests, injected, readDone, abandoned, sFetch, sStatus, sAborted, sent, wire, pending, buffer, lines,
                   emitted, nReads>>

\* The consumer's next() after a yield
Resume ==
    /\ spc = "yield"
    /\ Advance(buffer, lines)
    /\ UNCHANGED <<cvars, dvars, stream, created, sRequests, injected, readDone, abandoned, sFetch, sStatus, sAborted, sent, wire, pending, sError>>

\* The consumer's return() after a yield: the finally block
Abandon ==
    /\ spc = "yield"
    /\ abandoned' = TRUE
    /\ Finally
    /\ spc' = "done"
    /\ UNCHANGED <<cvars, dvars, stream, created, sRequests, injected, readDone, sFetch, sStatus, sAborted, sent, wire, pending, buffer, lines,
                   emitted, nReads, sError>>

\* The consumer calls throw(e) on the iterator at a yield: e is thrown at the
\* yield expression, which is inside the try of l.80-84, so the empty catch
\* takes it and the for loop goes on with the next line
Throw ==
    /\ spc = "yield"
    /\ ~injected
    /\ injected' = TRUE
    /\ Advance(buffer, lines)
    /\ UNCHANGED <<cvars, dvars, stream, created, sRequests, readDone, abandoned, sFetch,
                   sStatus, sAborted, sent, wire, pending, sError>>

\* The consumer iterates the same Stream object again after a traversal is
\* over: [Symbol.asyncIterator]() makes a new generator, whose first next()
\* runs its body from the top with fresh locals
PullAgain ==
    /\ spc \in {"done", "threw"}
    /\ sFetch < MaxTraversals
    /\ sTimer' = TRUE
    /\ sFetch' = sFetch + 1
    /\ sRequests' = Append(sRequests, StreamRequestOf(stream))
    /\ spc' = "connect"
    /\ sStatus' = 0
    /\ sAborted' = FALSE
    /\ sent' = NoStream
    /\ wire' = <<>>
    /\ pending' = <<>>
    /\ buffer' = <<>>
    /\ lines' = <<>>
    /\ emitted' = <<>>
    /\ nReads' = 0
    /\ readerHeld' = FALSE
    /\ nRelease' = 0
    /\ sError' = NoError
    /\ readDone' = FALSE
    /\ abandoned' = FALSE
    /\ injected' = FALSE
    /\ UNCHANGED <<cvars, dvars, stream, created>>

-----------------------------------------------------------------------------
(* client.ts: the constructor and the namespaces *)

HostA == <<"a", ".", "i", "o">>
Localhost == <<"l", "o", "c", "a", "l", "h", "o", "s", "t">>
Loopback == <<"1", "2", "7", ".", "0", ".", "0", ".", "1">>

\* Values of opts.baseUrl: absent, https with and without trailing slashes,
\* http to the local host, http to another host, http to hosts whose names
\* begin with localhost or 127.0.0.1, the empty string
BaseUrlOptions ==
    {UndefinedText,
     HttpsScheme \o HostA,
     HttpsScheme \o HostA \o <<"/", "/">>,
     HttpScheme \o Localhost \o <<":", "8", "0">>,
     HttpScheme \o Loopback,
     HttpScheme \o HostA,
     HttpScheme \o Localhost \o <<".">> \o HostA,
     HttpScheme \o Loopback \o <<".">> \o HostA,
     <<>>}

\* Values of process.env.WATERLIGHT_BASE_URL
EnvUrls == {UndefinedText, HttpScheme \o HostA}

\* Values of opts.apiKey and of process.env.WATERLIGHT_API_KEY
ApiKeyOptions == {Undefined, "", "wl-key"}
EnvKeys == {Undefined, "wl-env"}

\* Values of opts.maxRetries (NoNumber: absent)
MaxRetriesOptions == {NoNumber, 0}

Options ==
    {MkOptions(k, u, n, ek, eu) :
        k \in ApiKeyOptions, u \in BaseUrlOptions, n \in MaxRetriesOptions,
        ek \in EnvKeys, eu \in EnvUrls}

\* url.replace(/\/+$/, '')
RECURSIVE StripTrailingSlashes(_)
StripTrailingSlashes(u) ==
    IF u # <<>> /\ u[Len(u)] = "/" THEN StripTrailingSlashes(SubSeq(u, 1, Len(u) - 1))
    ELSE u

\* The constructor without the test of the url
AcceptsBaseUrl_Any(u) == TRUE

\* The test of the constructor on resolvedUrl: the three startsWith
AcceptsBaseUrl(u) ==
    \/ StartsWith(u, HttpsScheme)
    \/ StartsWith(u, HttpScheme \o Localhost)
    \/ StartsWith(u, HttpScheme \o Loopback)

MissingKeyError ==
    WaterlightError("API key required. Pass apiKey or set WATERLIGHT_API_KEY env var. "
                        \o "Get your key at https://waterlight.io",
                    NoNumber, Undefined)

InvalidBaseUrlError ==
    WaterlightError("baseUrl must use HTTPS. HTTP is only allowed for localhost development.",
                    NoNumber, Undefined)

\* new Waterlight(opts)
Construct ==
    /\ client = NoClient
    /\ cError = NoError
    /\ LET key == Coalesce(opts.apiKey, opts.envKey)
           resolvedUrl ==
               StripTrailingSlashes(
                   CoalesceText(CoalesceText(opts.baseUrl, opts.envUrl), DEFAULT_BASE_URL))
       IN  IF ~Truthy(key)
           THEN /\ cError' = MissingKeyError
                /\ UNCHANGED <<client, maxRetries>>
           ELSE IF ~AcceptsBaseUrl(resolvedUrl)
           THEN /\ cError' = InvalidBaseUrlError
                /\ UNCHANGED <<client, maxRetries>>
           ELSE /\ client' = MkClient(key, resolvedUrl)
                /\ maxRetries' = IF opts.maxRetries = NoNumber THEN DEFAULT_MAX_RETRIES
                                 ELSE opts.maxRetries
                /\ UNCHANGED cError
    /\ UNCHANGED <<opts, svars, hasBody, pc, attempt, nFetch, inFlight, timers, aborted,
                   res, delay, result, error, call, requests, errorBody>>

\* The body of the non-streaming request with the caller's params.stream kept
NonStreamBody_AsGiven(streamParam) ==
    MkJsonBody(IF streamParam = "undefined" THEN "absent" ELSE streamParam)

\* The body Completions.create gives _post: { ...params, stream: false }
NonStreamBody(streamParam) == MkJsonBody("false")

\* client.chat.completions.create(params): a Stream when params.stream is
\* truthy, and otherwise _post, which runs _request up to its first fetch
Create ==
    /\ client # NoClient
    /\ created = NotCreated
    /\ pc = "idle"
    /\ \E v \in ParamStreamValues :
        /\ created' = MkCreated(IF JSTruthy(v) THEN "Stream" ELSE "Promise", v)
        /\ IF JSTruthy(v)
           THEN /\ stream' = NewStream(client, v)
                /\ spc' = "new"
                /\ UNCHANGED <<hasBody, pc, attempt, nFetch, inFlight, timers, call,
                               requests>>
           ELSE /\ call' = MkCall("POST", ChatCompletionsPath, NonStreamBody(v))
                /\ hasBody' = TRUE
                /\ attempt' = 0
                /\ timers' = timers \cup {nFetch}
                /\ inFlight' = inFlight \cup {nFetch}
                /\ nFetch' = nFetch + 1
                /\ requests' = Append(requests, RequestOf(call'))
                /\ pc' = "fetch"
                /\ UNCHANGED <<stream, spc>>
    /\ UNCHANGED <<cvars, maxRetries, aborted, res, delay, result, error, errorBody,
                   sFetch, sStatus, sTimer, sAborted, sent, wire, pending, buffer, lines,
                   emitted, nReads, readerHeld, nRelease, sError, readDone, abandoned,
                   sRequests, injected>>

\* client.models.list(): _get, which runs _request up to its first fetch
ListModels ==
    /\ client # NoClient
    /\ pc = "idle"
    /\ call' = GetCall
    /\ hasBody' = FALSE
    /\ attempt' = 0
    /\ timers' = timers \cup {nFetch}
    /\ inFlight' = inFlight \cup {nFetch}
    /\ nFetch' = nFetch + 1
    /\ requests' = Append(requests, RequestOf(call'))
    /\ pc' = "fetch"
    /\ UNCHANGED <<svars, cvars, maxRetries, aborted, res, delay, result, error, errorBody>>

\* Before new Waterlight(opts): no client, no call, no Stream
ClientInit ==
    /\ opts \in Options
    /\ client = NoClient
    /\ cError = NoError
    /\ maxRetries = NoNumber
    /\ hasBody = FALSE
    /\ call = NoCall
    /\ requests = <<>>
    /\ errorBody = NoErrorBody
    /\ pc = "idle"
    /\ attempt = 0
    /\ nFetch = 0
    /\ inFlight = {}
    /\ timers = {}
    /\ aborted = {}
    /\ res = NoResponse
    /\ delay = NoNumber
    /\ result = Undefined
    /\ error = NoError
    /\ spc = "none"
    /\ sFetch = 0
    /\ sStatus = 0
    /\ sTimer = FALSE
    /\ sAborted = FALSE
    /\ sent = NoStream
    /\ wire = <<>>
    /\ pending = <<>>
    /\ buffer = <<>>
    /\ lines = <<>>
    /\ emitted = <<>>
    /\ nReads = 0
    /\ readerHeld = FALSE
    /\ nRelease = 0
    /\ sError = NoError
    /\ readDone = FALSE
    /\ abandoned = FALSE
    /\ stream = NoStreamObject
    /\ created = NotCreated
    /\ sRequests = <<>>
    /\ injected = FALSE

-----------------------------------------------------------------------------
(* Specifications *)

Init == ClientReady /\ DispatcherInit /\ StreamInit

Next ==
    \/ Request
    \/ TimerFires
    \/ FetchResolves
    \/ SleepElapses
    \/ ErrorBodyRead
    \/ OkBodyParsed
    \/ OkBodyFails
    \/ FetchAborted
    \/ FetchFails

Spec == Init /\ [][Next]_vars

\* What the host's scheduling guarantees: a sleep resolves, a fetch settles,
\* a body read settles
FairSpec ==
    /\ Spec
    /\ WF_vars(SleepElapses)
    /\ WF_vars(FetchResolves \/ FetchFails \/ FetchAborted)
    /\ WF_vars(ErrorBodyRead)
    /\ WF_vars(OkBodyParsed \/ OkBodyFails)

\* One traversal of one Stream
StreamNext ==
    \/ Pull
    \/ StreamTimerFires
    \/ ConnectOk
    \/ ConnectNotOk
    \/ ErrorTextRead
    \/ ConnectAborted
    \/ ConnectFails
    \/ ReadChunk
    \/ ReadDone
    \/ ReadFails
    \/ Resume
    \/ Abandon

\* A fresh Stream of a client at rest
StreamSpecInit == ClientReady /\ DispatcherAtRest /\ StreamInit

SpecStream == StreamSpecInit /\ [][StreamNext]_vars

\* One Stream object iterated up to MaxTraversals times, one traversal after
\* the other
ReuseNext ==
    \/ StreamNext
    \/ PullAgain

SpecReuse == StreamSpecInit /\ [][ReuseNext]_vars

\* One traversal of a Stream whose body is a long run of short events
FramesNext ==
    \/ Pull
    \/ StreamTimerFires
    \/ ConnectOkShortFrames
    \/ ReadChunk
    \/ ReadDone
    \/ ReadFails
    \/ Resume
    \/ Abandon

SpecFrames == StreamSpecInit /\ [][FramesNext]_vars

\* One traversal in which the consumer may call throw() once at a yield
InjectNext ==
    \/ StreamNext
    \/ Throw

SpecInject == StreamSpecInit /\ [][InjectNext]_vars

\* The construction of a client and the start of its first calls: up to the
\* point where each request has been handed to fetch()
ClientNext ==
    \/ Construct
    \/ Create
    \/ ListModels
    \/ Pull

SpecClient == ClientInit /\ [][ClientNext]_vars

\* The responses of the call that runs beside a traversal
ConcurrentResponses ==
    {r \in Responses : /\ r.status \in {200, 401, 503}
                       /\ r.retryAfter \in {Null, "2"}
                       /\ r.requestId = Null}

\* models.list() with one retry allowed and a fresh Stream, on one client
ConcurrentInit == Init /\ maxRetries = 1 /\ ~hasBody

\* One logical call and one traversal of a Stream running concurrently on the
\* same client: the continuations of the two run in any order
ConcurrentNext ==
    \/ Request
    \/ TimerFires
    \/ (FetchResolves /\ \E r \in ConcurrentResponses : res' = Answer(r, Cur))
    \/ SleepElapses
    \/ ErrorBodyRead
    \/ OkBodyParsed
    \/ OkBodyFails
    \/ FetchAborted
    \/ FetchFails
    \/ Pull
    \/ StreamTimerFires
    \/ (ConnectOk /\ sent' = StreamNoSentinel)
    \/ ConnectNotOk
    \/ ErrorTextRead
    \/ ConnectAborted
    \/ ConnectFails
    \/ ReadChunk
    \/ ReadDone
    \/ ReadFails
    \/ Resume
    \/ Abandon

SpecConcurrent == ConcurrentInit /\ [][ConcurrentNext]_vars

-----------------------------------------------------------------------------
(* Properties of the Dispatcher *)

\* The step in which the response of the running attempt is received
ResponseReceived == pc = "fetch" /\ res' # res /\ res'.fetch = Cur

\* C1: a non-2xx response received on attempt a is followed by another attempt
\* if and only if its status is one of 429, 500, 502, 503, 504 and
\* a < maxRetries; otherwise the call raises without another attempt, so a 401
\* on the first attempt leaves the call with exactly one attempt.
C1_RetryIffRetryableAndBudget ==
    /\ [][(ResponseReceived /\ ~Ok(res'.status)) =>
            ((pc' = "sleep") <=>
                (res'.status \in {429, 500, 502, 503, 504} /\ attempt < maxRetries))]_vars
    /\ [][(pc = "sleep") => (pc' = "fetch" /\ nFetch' = nFetch + 1)]_vars
    /\ \A n \in 1..(MaxRetriesBound + 1) :
          (pc = "sleep" /\ nFetch = n) ~> (pc = "fetch" /\ nFetch = n + 1)
    /\ [][(pc \in {"errBody", "raised"}) =>
            (pc' = "raised" /\ nFetch' = nFetch)]_vars
    /\ [](pc = "raised" /\ res.status = 401 /\ attempt = 0 => nFetch = 1)

C1_Witness ==
    /\ pc = "raised"
    /\ res.status = 401
    /\ error.name = "AuthenticationError"
    /\ maxRetries = MaxRetriesBound
    /\ nFetch = 1

\* C2: a logical call with maxRetries = N issues at most N + 1 attempts.
C2_AtMostNPlusOneAttempts == nFetch <= maxRetries + 1

C2_Witness ==
    /\ pc = "raised"
    /\ maxRetries = 2
    /\ nFetch = 3
    /\ res.status = 500

\* C3: the delay before a retry is retry-after x 1000 ms when the failed
\* response carries a retry-after header, whatever its retryable status, and
\* 500 x 2^attempt ms otherwise (500, 1000, 2000, ...).
C3_RetryDelay ==
    pc = "sleep" =>
        /\ res.retryAfter # Null => delay = ParseFloatMilli(res.retryAfter)
        /\ res.retryAfter = Null =>
            /\ delay = 500 * 2^attempt
            /\ attempt = 0 => delay = 500
            /\ attempt = 1 => delay = 1000
            /\ attempt = 2 => delay = 2000

C3_Witness ==
    /\ pc = "sleep"
    /\ attempt = 1
    /\ res.status = 503
    /\ res.retryAfter = "2"
    /\ delay = 2000

\* The kind of error the claim gives for a status
KindOfStatus(s) ==
    CASE s = 401 -> "AuthenticationError"
      [] s = 429 -> "RateLimitError"
      [] s = 402 -> "InsufficientCreditsError"
      [] OTHER -> "APIError"

\* C4: the error raised for a non-2xx response that is not retried has the
\* kind its status determines (401, 429 with the parsed retry-after when the
\* header is present, 402, any other status APIError with that status), also
\* when the status is retryable and the retries are exhausted.
C4_ErrorKindByStatus ==
    [][(pc = "errBody" /\ pc' = "raised") =>
        /\ error'.name = KindOfStatus(res.status)
        /\ error'.status = res.status
        /\ error'.retryAfter =
              IF res.status = 429 /\ res.retryAfter # Null
              THEN ParseFloatMilli(res.retryAfter) ELSE NoNumber]_vars

C4_Witness ==
    /\ pc = "raised"
    /\ error.name = "RateLimitError"
    /\ error.retryAfter = 30000
    /\ maxRetries > 0
    /\ attempt = maxRetries

\* C5: when the timeout timer fires while an attempt is in flight, the call
\* raises APIError 408 'Request timed out' and issues no further attempt, and
\* the number of attempts stays within maxRetries + 1.
C5_TimeoutRaises408 ==
    /\ [][(pc = "fetch" /\ Cur \in aborted) =>
            /\ pc' = "raised"
            /\ error' = APIError("Request timed out", 408, Undefined)
            /\ nFetch' = nFetch]_vars
    /\ [][(pc = "raised" /\ error.status = 408) => UNCHANGED <<pc, nFetch, error>>]_vars
    /\ [](error.status = 408 => nFetch <= maxRetries + 1)

C5_Witness ==
    /\ pc = "raised"
    /\ error.name = "APIError"
    /\ error.status = 408
    /\ error.message = "Request timed out"
    /\ Cur \in aborted
    /\ attempt < maxRetries

\* C6: when fetch fails for a reason other than the timeout abort, the call
\* raises APIError with status 0 and a message that embeds the description of
\* the underlying error, and issues no further attempt.
C6_TransportFailureRaises0 ==
    /\ [][(pc = "fetch" /\ Cur \notin aborted /\ Cur \notin aborted'
             /\ ~ResponseReceived) =>
            /\ pc' = "raised"
            /\ error'.name = "APIError"
            /\ error'.status = 0
            /\ \E e \in NetworkErrors :
                  error'.message = "Network error: " \o e.message
            /\ nFetch' = nFetch]_vars
    /\ [][(pc = "raised" /\ error.status = 0) => UNCHANGED <<pc, nFetch, error>>]_vars

C6_Witness ==
    /\ pc = "raised"
    /\ error = APIError("Network error: fetch failed", 0, Undefined)
    /\ res.status = 500
    /\ attempt = 1
    /\ maxRetries = MaxRetriesBound

\* C7: the error thrown by the status classification reaches the caller
\* unchanged: same kind, status, message and request id.
C7_TypedErrorUnchanged ==
    [][(pc = "errBody" /\ pc' = "raised") =>
        /\ \E b \in ErrorBodies : error' = handleError(res.status, ErrorData(b), res)
        /\ error'.status = res.status
        /\ error'.requestId = Coalesce(res.requestId, Undefined)
        /\ error'.message \in {"Request failed", "Forbidden", "Invalid API key"}]_vars

C7_Witness ==
    /\ pc = "raised"
    /\ error.name = "AuthenticationError"
    /\ error.status = 401
    /\ error.message = "Invalid API key"
    /\ error.requestId = "req-xyz-123"

\* C8: no timer of the call is armed while it sleeps before a retry or after
\* it has completed, the timer of an attempt is cancelled once the attempt is
\* over, and at most one timer is armed at any time.
C8_TimerCancelled ==
    /\ Cardinality(timers) <= 1
    /\ pc \in {"sleep", "returned", "raised"} => timers = {}
    /\ pc \in {"errBody", "okBody"} => timers = {}
    /\ timers \subseteq {Cur}

C8_Witness ==
    /\ pc = "sleep"
    /\ nFetch = 2
    /\ timers = {}
    /\ aborted = {}

\* C9: at most one attempt is in flight at any time, and an attempt is issued
\* only at the start of the call or when the sleep that follows the response
\* of the previous attempt has elapsed.
C9_OneAttemptInFlight ==
    /\ [](Cardinality(inFlight) <= 1)
    /\ [](pc \in {"sleep", "errBody", "okBody", "returned", "raised"} => inFlight = {})
    /\ [][nFetch' # nFetch =>
            /\ nFetch' = nFetch + 1
            /\ inFlight = {}
            /\ pc = "idle" \/ (pc = "sleep" /\ ~Ok(res.status))]_vars

C9_Witness ==
    /\ pc = "fetch"
    /\ nFetch = 3
    /\ inFlight = {2}
    /\ res.status = 502

-----------------------------------------------------------------------------
(* Properties of the stream decoder *)

IsPrefix(a, b) == Len(a) <= Len(b) /\ SubSeq(b, 1, Len(a)) = a

\* Number of bytes of the body that reader.read() has handed over
Delivered == Len(sent.head) + Len(sent.tail) - Len(wire)

\* The event that holds the first sentinel line has been handed over whole
SentinelDelivered == sent.hasDone /\ Delivered >= Len(sent.head)

\* C10: once the sentinel line is met the traversal ends normally: no event
\* of a later line, event or chunk is emitted and no further read is issued.
\* The traversal never waits for a read once the event with the sentinel has
\* been handed over; it emits events that precede the sentinel only; and when
\* it is over it has ended without an error (unless the very read that
\* brought the sentinel overflowed the buffer) and stays over.
C10_SentinelEndsTraversal ==
    /\ [](spc = "read" => ~SentinelDelivered)
    /\ [](sent.hasDone => IsPrefix(emitted, sent.events))
    /\ [](SentinelDelivered /\ spc = "done" => sError = NoError /\ ~readerHeld)
    /\ [](SentinelDelivered /\ spc = "threw" => Len(buffer) > MAX_SSE_BUFFER)
    /\ [][spc = "done" => UNCHANGED <<spc, emitted, nReads, sError>>]_vars

C10_Witness ==
    /\ spc = "done"
    /\ sent = StreamDoneThenMore
    /\ wire = <<>>
    /\ buffer = Data(<<" ", "2">>) \o <<NL, NL>>
    /\ emitted = << <<"1">> >>
    /\ nReads = 1
    /\ sError = NoError

\* The traversal ended by itself: by the sentinel or by the end of the body,
\* neither by an error nor by the consumer's return()
EndedByItself == spc = "done" /\ ~abandoned

\* The error of a reader.read() that rejected
ReadErrors == NetworkErrors \cup {AbortError}

\* C11: a data: line whose payload is not valid JSON is skipped without an
\* error.  On the body with the malformed line between two well-formed ones
\* the traversal emits the payload before it and the payload after it, in
\* order and nothing else; it has emitted both once the event after the
\* malformed one has been handed over; it raises only when a read fails; and
\* when it ends by itself it has emitted exactly the two and has no error.
C11_MalformedLineSkipped ==
    LET both == << <<"1">>, <<"2">> >>
        upToSecond == Len(Data(<<"1">>) \o <<NL, NL>> \o Data(<<"{", "x">>) \o <<NL, NL>>
                            \o Data(<<"2">>) \o <<NL, NL>>)
    IN  sent = StreamMalformed =>
            /\ IsPrefix(emitted, both)
            /\ spc = "read" /\ Delivered >= upToSecond => emitted = both
            /\ spc = "threw" => sError \in ReadErrors
            /\ EndedByItself => emitted = both /\ sError = NoError

C11_Witness ==
    /\ sent = StreamMalformed
    /\ EndedByItself
    /\ emitted = << <<"1">>, <<"2">> >>
    /\ sError = NoError
    /\ nReads = 1

\* The text the decoder has been given so far: the bytes handed over by the
\* reads, decoded
Received ==
    Decode(<<>>, SubSeq(sent.head \o sent.tail, 1, Delivered)).text

\* The blank-line-terminated frames of a text, in order, without the text
\* after the last blank line
RECURSIVE CompleteFrames(_)
CompleteFrames(text) ==
    LET boundary == IndexOfBlankLine(text)
    IN  IF boundary = -1 THEN <<>>
        ELSE <<SliceTo(text, boundary)>> \o CompleteFrames(SliceFrom(text, boundary + 2))

\* The lines of a sequence of frames, in order
RECURSIVE LinesOf(_)
LinesOf(frames) ==
    IF frames = <<>> THEN <<>> ELSE Split(Head(frames)) \o LinesOf(Tail(frames))

IsDataLine(line) == StartsWith(line, DataPrefix)

\* What the claim says a traversal emits for a text: the payloads of the
\* data: lines of its complete frames, up to the first sentinel, that are JSON
PayloadsOf(text) ==
    LET dataLines == SelectSeq(LinesOf(CompleteFrames(text)), IsDataLine)
        payloads == [i \in 1..Len(dataLines) |-> Trim(SliceFrom(dataLines[i], 5))]
        sentinels == {i \in 1..Len(payloads) : payloads[i] = DONE}
        last == IF sentinels = {} THEN Len(payloads)
                ELSE (CHOOSE i \in sentinels : \A j \in sentinels : i <= j) - 1
    IN  SelectSeq(SubSeq(payloads, 1, last), ParsesAsJSON)

\* The traversal threw the overflow error
Overflowed == spc = "threw" /\ sError = APIError("SSE buffer overflow", 0, Undefined)

\* C12: the events emitted are, in order, without duplicate and without
\* omission, the JSON payloads of the data: lines of the blank-line-terminated
\* frames received before the first sentinel.  At every moment the events
\* emitted are a prefix of those payloads; they are all of them whenever the
\* traversal waits for a read and when it ends by itself, where they are also
\* the events the body was built to carry; and a traversal that has acquired
\* its reader raises only for a failed read or an overflow, never for a line.
C12_EventsAreThePayloads ==
    /\ IsPrefix(emitted, PayloadsOf(Received))
    /\ spc = "read" => emitted = PayloadsOf(Received)
    /\ spc = "yield" => emitted # <<>>
    /\ EndedByItself => emitted = PayloadsOf(Received) /\ emitted = sent.events
    /\ spc = "threw" /\ nReads > 0 => sError \in ReadErrors \/ Overflowed

C12_Witness ==
    /\ sent = StreamDoneInsideEvent
    /\ EndedByItself
    /\ Received = sent.head \o sent.tail
    /\ emitted = << <<"1">> >>
    /\ nReads = 1

\* The step in which reader.read() resolves with bytes, and the buffer the
\* overflow test of that step sees
ChunkRead == spc = "read" /\ wire' # wire

BufferAfterRead ==
    buffer \o Decode(pending, SubSeq(wire, 1, Len(wire) - Len(wire'))).text

Extracted == Len(Received) - Len(buffer)

\* C14: wherever the traversal is suspended with events extracted or emitted
\* the buffer holds at most MAX_SSE_BUFFER characters; the buffer is always
\* the received text without some leading complete frames, so no text is
\* dropped to stay under the bound; a read that takes the buffer over the
\* bound has the overflow error as its only outcome, with the whole text
\* still in the buffer; and after that error nothing is emitted.
C14_BufferBounded ==
    /\ [](spc \in {"read", "yield", "done"} => Len(buffer) <= MAX_SSE_BUFFER)
    /\ [](nReads > 0 =>
            /\ Extracted >= 0
            /\ buffer = SubSeq(Received, Extracted + 1, Len(Received))
            /\ \/ Extracted = 0
               \/ /\ Extracted >= 2
                  /\ Received[Extracted - 1] = NL
                  /\ Received[Extracted] = NL)
    /\ [][ChunkRead /\ Len(BufferAfterRead) > MAX_SSE_BUFFER =>
            /\ spc' = "threw"
            /\ sError' = APIError("SSE buffer overflow", 0, Undefined)
            /\ buffer' = BufferAfterRead
            /\ emitted' = emitted]_vars
    /\ [](Len(buffer) > MAX_SSE_BUFFER => Overflowed)
    /\ [][Overflowed => UNCHANGED <<spc, sError, emitted, buffer, nReads>>]_vars

C14_Witness ==
    /\ sent = StreamLongEvent
    /\ Overflowed
    /\ emitted = << <<"1">> >>
    /\ Len(buffer) > MAX_SSE_BUFFER
    /\ buffer = SubSeq(Received, Len(Data(<<"1">>)) + 3, Len(Received))

\* C15: when reader.read() resolves with done, no sentinel having been met,
\* the traversal ends normally in that same step: no error, the reader
\* released, and the events emitted are those of every complete frame of the
\* body; the end of the body is only ever seen by a traversal waiting for a
\* read of a body without a sentinel event, and it adds no event.
C15_EndOfDataEndsNormally ==
    /\ [](readDone =>
            /\ spc = "done"
            /\ sError = NoError
            /\ ~abandoned
            /\ ~sent.hasDone
            /\ ~readerHeld
            /\ emitted = PayloadsOf(Received)
            /\ emitted = sent.events)
    /\ [][readDone' /\ ~readDone =>
            /\ spc = "read"
            /\ wire = <<>>
            /\ emitted' = emitted]_vars

C15_Witness ==
    /\ readDone
    /\ sent = StreamNoSentinel
    /\ spc = "done"
    /\ sError = NoError
    /\ emitted = << <<"1">> >>
    /\ buffer = Data(<<"2">>)

\* The traversal is suspended inside the try block: at a read or at a yield
InsideTry == spc \in {"read", "yield"}

\* The traversal is over
Over == spc \in {"done", "threw"}

\* C16: once the reader has been acquired, the traversal holds it while it
\* is suspended at a read or a yield, and every step that ends the traversal
\* from there (end of data, sentinel, overflow, failed read, the consumer's
\* return()) releases it, once: releaseLock() is never called twice, never
\* before the end, and a traversal that is over does not hold the reader.
C16_ReaderReleasedOnce ==
    /\ [](nRelease <= 1)
    /\ [](InsideTry => readerHeld /\ nRelease = 0)
    /\ [](readerHeld => InsideTry)
    /\ [](Over /\ nReads > 0 => ~readerHeld /\ nRelease = 1)
    /\ [](nReads = 0 => ~readerHeld /\ nRelease = 0)
    /\ [][InsideTry /\ Over' => readerHeld /\ ~readerHeld' /\ nRelease' = nRelease + 1]_vars
    /\ [][Over => UNCHANGED <<readerHeld, nRelease>>]_vars

C16_Witness ==
    /\ abandoned
    /\ spc = "done"
    /\ sent = StreamLongEvent
    /\ emitted = << <<"1">> >>
    /\ wire # <<>>
    /\ ~readerHeld
    /\ nRelease = 1

\* C17: the Stream as constructed has issued no request and armed no timer,
\* and stays so until the consumer pulls; the request is issued, and the
\* timer armed, by the consumer's first pull and by no other step, once.
C17_LazyRequest ==
    /\ spc = "new" /\ sFetch = 0 /\ ~sTimer
    /\ [](spc = "new" => sFetch = 0 /\ ~sTimer /\ ~sAborted /\ nReads = 0)
    /\ [][sFetch' # sFetch =>
            /\ spc = "new"
            /\ spc' = "connect"
            /\ sFetch' = 1
            /\ sTimer']_vars
    /\ [][sTimer' /\ ~sTimer => sFetch' = sFetch + 1]_vars
    /\ [](spc # "new" => sFetch = 1)

C17_Witness ==
    /\ spc = "connect"
    /\ sFetch = 1
    /\ sTimer
    /\ ~sAborted
    /\ nReads = 0

\* The step in which the response to the streaming request arrives
Connected == spc = "connect" /\ sStatus' # sStatus

\* C18: a non-2xx response to the streaming request makes the traversal
\* raise the base WaterlightError with the status of the response, whatever
\* the status (401, 402 and 429 included, where the non-streaming path
\* raises a subclass), without a reader, a read or an event.
C18_StreamNon2xxRaisesBaseError ==
    /\ [][Connected /\ ~Ok(sStatus') => spc' = "errText"]_vars
    /\ [](spc = "errText" => ~Ok(sStatus))
    /\ [][spc = "errText" /\ spc' # spc =>
            /\ spc' = "threw"
            /\ sError'.name = "WaterlightError"
            /\ sError'.status = sStatus
            /\ emitted' = <<>>]_vars
    /\ [](sStatus # 0 /\ ~Ok(sStatus) /\ spc = "threw" =>
            /\ sError.name = "WaterlightError"
            /\ sError.status = sStatus
            /\ sStatus \in {401, 402, 429} => sError.name # KindOfStatus(sStatus)
            /\ \E errMsg \in ErrorTexts :
                  sError.message = "Streaming error: " \o ToString(sStatus) \o " " \o errMsg
            /\ emitted = <<>>
            /\ nReads = 0
            /\ ~readerHeld)

C18_Witness ==
    /\ spc = "threw"
    /\ sStatus = 429
    /\ sError = WaterlightError("Streaming error: 429 Server Error", 429, Undefined)
    /\ emitted = <<>>
    /\ nReads = 0

\* The traversal threw before it acquired the reader
ThrewOnConnect == spc = "threw" /\ nReads = 0

\* C19 as stated: a non-2xx response to the streaming request is surfaced as
\* an APIError, the kind of the 408 of a timeout and of the 0 of a transport
\* failure.
C19_AsStated ==
    ThrewOnConnect /\ sStatus # 0 /\ ~Ok(sStatus) => sError.name = "APIError"

\* C19, amended: on the connect path the traversal raises an APIError exactly
\* when no response was received (408 for the timeout, 0 for a transport
\* failure); a non-2xx response is surfaced as the base WaterlightError with
\* the status of the response, which is not an APIError.
C19_StreamNon2xxIsNotAPIError ==
    ThrewOnConnect =>
        /\ sError.name = "APIError" <=> sStatus = 0
        /\ sStatus = 0 => sError.status \in {408, 0}
        /\ sStatus # 0 =>
            /\ ~Ok(sStatus)
            /\ sError.name = "WaterlightError"
            /\ sError.status = sStatus

C19_Witness ==
    /\ ThrewOnConnect
    /\ sStatus = 500
    /\ sError.name = "WaterlightError"
    /\ sError.message = "Streaming error: 500 "
    /\ sError.status = 500

\* The step in which fetch() of the streaming request rejects
ConnectRejected == spc = "connect" /\ spc' # spc /\ sStatus' = sStatus

\* C20: when fetch() of the streaming request rejects, the traversal raises
\* APIError 408 'Stream request timed out' if the controller was aborted by
\* the timeout, and otherwise APIError 0 with a message that embeds the
\* transport error's; no event is emitted, no reader acquired, no second
\* request issued.
C20_StreamConnectFailure ==
    /\ [][ConnectRejected =>
            /\ spc' = "threw"
            /\ IF sAborted
               THEN sError' = APIError("Stream request timed out", 408, Undefined)
               ELSE \E e \in NetworkErrors :
                       sError' = APIError("Network error: " \o e.message, 0, Undefined)
            /\ emitted' = <<>>
            /\ sFetch' = sFetch
            /\ ~sTimer']_vars
    /\ [](ThrewOnConnect /\ sStatus = 0 =>
            /\ sError.status = 408 <=> sAborted
            /\ emitted = <<>>
            /\ ~readerHeld
            /\ sFetch = 1)
    /\ [][ThrewOnConnect => UNCHANGED <<spc, sError, emitted, sFetch>>]_vars

C20_Witness ==
    /\ ThrewOnConnect
    /\ sStatus = 0
    /\ sAborted
    /\ sError = APIError("Stream request timed out", 408, Undefined)
    /\ emitted = <<>>

\* C21 as stated: one Stream object issues at most one HTTP request over its
\* lifetime; a second traversal fails instead of opening a new connection.
C21_AsStated == sFetch <= 1

\* C22 as stated: every failure a traversal surfaces to its consumer is a
\* WaterlightError or one of its subclasses and carries a status; no raw
\* transport exception escapes.
C22_AsStated ==
    spc = "threw" => InstanceOfWaterlightError(sError) /\ sError.status # NoNumber

-----------------------------------------------------------------------------
(* Properties of the client *)

\* Every request handed to fetch() so far, by logical calls and by Streams
AllRequests == requests \o sRequests

\* The host of an http:// or https:// url: what follows the scheme, up to the
\* port, path, query or fragment
HostOf(url) ==
    LET rest == IF StartsWith(url, HttpsScheme) THEN SliceFrom(url, Len(HttpsScheme))
                ELSE SliceFrom(url, Len(HttpScheme))
        stops == {i \in 1..Len(rest) : rest[i] \in {"/", ":", "?", "#"}}
    IN  IF stops = {} THEN rest
        ELSE SliceTo(rest, (CHOOSE i \in stops : \A j \in stops : i <= j) - 1)

\* An HTTPS url, or a plain HTTP url of the local host
SecureOrLocal(url) ==
    \/ StartsWith(url, HttpsScheme)
    \/ StartsWith(url, HttpScheme) /\ HostOf(url) \in {Localhost, Loopback}

\* C23 as stated: every request the client issues, each of which carries the
\* bearer credential, goes to an HTTPS url or over plain HTTP to localhost or
\* 127.0.0.1, whatever baseUrl the constructor accepted.
C23_AsStated ==
    \A i \in 1..Len(AllRequests) : SecureOrLocal(AllRequests[i].url)

\* The constructor is given no API key, by option or by environment
NoApiKey == opts.apiKey = Undefined /\ opts.envKey = Undefined

\* The base url the constructor resolves is one it must reject: neither
\* https:// nor http://localhost nor http://127.0.0.1
RejectedBaseUrl ==
    LET url == StripTrailingSlashes(
                   CoalesceText(CoalesceText(opts.baseUrl, opts.envUrl), DEFAULT_BASE_URL))
    IN  /\ ~StartsWith(url, HttpsScheme)
        /\ ~StartsWith(url, HttpScheme \o Localhost)
        /\ ~StartsWith(url, HttpScheme \o Loopback)

\* C24: a constructor given no API key, or a base url it must reject, throws
\* the base WaterlightError without a status and makes no client; as long as
\* there is no client no request is issued and no call or Stream is made,
\* and a failed construction stays failed.
C24_FailedConstruction ==
    /\ [][client = NoClient /\ cError = NoError /\ <<client, cError>>' # <<client, cError>>
             /\ (NoApiKey \/ RejectedBaseUrl) =>
            /\ cError'.name = "WaterlightError"
            /\ cError'.status = NoNumber
            /\ client' = NoClient
            /\ AllRequests' = <<>>]_vars
    /\ [](NoApiKey \/ RejectedBaseUrl => client = NoClient)
    /\ [](client = NoClient =>
            /\ AllRequests = <<>>
            /\ nFetch = 0 /\ sFetch = 0
            /\ timers = {} /\ ~sTimer
            /\ created = NotCreated
            /\ spc = "none" /\ pc = "idle")
    /\ [](cError # NoError => client = NoClient /\ cError.name = "WaterlightError")
    /\ [][cError # NoError => UNCHANGED vars]_vars

C24_Witness ==
    /\ cError = InvalidBaseUrlError
    /\ client = NoClient
    /\ opts.apiKey = "wl-key"
    /\ opts.baseUrl = HttpScheme \o HostA
    /\ AllRequests = <<>>

\* C25: every HTTP attempt of a logical call, retries included, carries
\* Authorization: Bearer <apiKey> and the fixed User-Agent, has the method,
\* URL and serialized body of the first attempt, and carries Content-Type:
\* application/json exactly when a body is present, so never on a GET.
C25_AttemptsCarrySameRequest ==
    /\ Len(requests) = nFetch
    /\ \A i \in 1..Len(requests) :
        /\ requests[i].authorization = "Bearer " \o client.apiKey
        /\ requests[i].userAgent = USER_AGENT
        /\ requests[i].method = requests[1].method
        /\ requests[i].url = requests[1].url
        /\ requests[i].body = requests[1].body
        /\ requests[i].method = call.method
        /\ requests[i].url = client.baseUrl \o call.path
        /\ requests[i].body = call.body
        /\ (requests[i].contentType = "application/json") <=> requests[i].body.present
        /\ requests[i].contentType \in {"application/json", Null}
        /\ requests[i].method = "GET" => requests[i].contentType = Null

\* A GET that is retried twice
C25_Witness ==
    /\ Len(requests) = 3
    /\ attempt = 2
    /\ requests[3].method = "GET"
    /\ requests[3].contentType = Null

\* C26: chat.completions.create returns a Stream exactly when params.stream
\* is truthy; the body of every request of the Stream has stream = true and
\* the body of the non-streaming request has stream = false, whatever value
\* the caller gave params.stream.
C26_StreamFlagMatchesMode ==
    created # NotCreated =>
        /\ (created.kind = "Stream") <=> (created.stream \in {"true", "1", "'yes'"})
        /\ created.kind \in {"Stream", "Promise"}
        /\ created.kind = "Stream" =>
            /\ stream # NoStreamObject
            /\ stream.body.present
            /\ stream.body.stream = "true"
            /\ \A i \in 1..Len(requests) : requests[i].method # "POST"
            /\ \A i \in 1..Len(sRequests) :
                sRequests[i].body.present /\ sRequests[i].body.stream = "true"
        /\ created.kind = "Promise" =>
            /\ stream = NoStreamObject
            /\ sRequests = <<>>
            /\ Len(requests) = 1
            /\ requests[1].method = "POST"
            /\ requests[1].body.present
            /\ requests[1].body.stream = "false"

\* create({ stream: 'yes' }) gave a Stream whose request has been sent
C26_Witness ==
    /\ created = MkCreated("Stream", "'yes'")
    /\ Len(sRequests) = 1
    /\ sRequests[1].body.stream = "true"

\* C27: the message of the error raised for a non-2xx response of the
\* non-streaming path is error.message of the body when error is an object,
\* error when it is a string, and 'Request failed' when the field is absent
\* or the body is not JSON.
C27_ErrorMessage ==
    (pc = "raised" /\ errorBody # NoErrorBody) =>
        error.message =
            (IF errorBody.kind = "object" /\ errorBody.text # Undefined
                 THEN errorBody.text
             ELSE IF errorBody.kind = "string" THEN errorBody.text
             ELSE "Request failed")

\* A 403 whose body is { "error": "Forbidden" } has been raised
C27_Witness ==
    /\ pc = "raised"
    /\ res.status = 403
    /\ errorBody = MkBody("string", "Forbidden")
    /\ error.message = "Forbidden"

\* C28: every error raised for a non-2xx response of the non-streaming path
\* has the response's x-request-id as requestId, whatever its class, and an
\* undefined requestId when the header is absent; the errors made locally,
\* with status 408 and 0, have no request id.
C28_RequestId ==
    /\ (pc = "raised" /\ errorBody # NoErrorBody) =>
           /\ error.status = res.status
           /\ error.requestId = (IF res.requestId = Null THEN Undefined
                                 ELSE res.requestId)
    /\ (pc = "raised" /\ error.status \in {408, 0}) =>
           /\ errorBody = NoErrorBody
           /\ error.requestId = Undefined

\* A RateLimitError raised for a 429 that had an x-request-id
C28_Witness ==
    /\ pc = "raised"
    /\ res.status = 429
    /\ res.requestId \in RequestIdValues
    /\ error.name = "RateLimitError"
    /\ error.requestId = res.requestId

\* C30: with maxRetries = N, a response with status 429 or with any 5xx
\* status is retried while fewer than N retries have been made.
C30_AsStated ==
    [][(ResponseReceived
            /\ (res'.status = 429 \/ res'.status \in 500..599)
            /\ attempt < maxRetries)
        => pc' = "sleep"]_vars

-----------------------------------------------------------------------------
(* Properties of concurrent calls *)

\* Which continuations of the logical call can run
CallEnabled ==
    <<ENABLED Request, ENABLED TimerFires, ENABLED FetchResolves, ENABLED SleepElapses,
      ENABLED ErrorBodyRead, ENABLED OkBodyParsed, ENABLED OkBodyFails,
      ENABLED FetchAborted, ENABLED FetchFails>>

\* Which continuations of the traversal can run
TraversalEnabled ==
    <<ENABLED Pull, ENABLED StreamTimerFires, ENABLED ConnectOk, ENABLED ConnectNotOk,
      ENABLED ErrorTextRead, ENABLED ConnectAborted, ENABLED ConnectFails,
      ENABLED ReadDone, ENABLED ReadFails, ENABLED Resume, ENABLED Abandon>>

-----------------------------------------------------------------------------
(* Further properties of the Dispatcher *)

\* C31: the timeout is per attempt.  Every attempt starts with a timer of its
\* own armed and a controller that has not been aborted, whatever happened to
\* the attempts and sleeps before it; a timeout callback aborts the attempt
\* that is in flight and no other; and the call ends with the timeout error
\* only through the abort of the attempt that is running.
C31_TimeoutPerAttempt ==
    /\ [][nFetch' # nFetch =>
            /\ timers' = {Cur'}
            /\ Cur' \notin aborted'
            /\ Cur' \notin timers
            /\ timers = {}]_vars
    /\ [][aborted' # aborted =>
            /\ aborted' = aborted \cup {Cur}
            /\ pc = "fetch"
            /\ Cur \in inFlight]_vars
    /\ [][(pc' = "raised" /\ pc # "raised" /\ error'.status = 408) =>
            (pc = "fetch" /\ Cur \in aborted)]_vars
    /\ [](pc \in {"sleep", "okBody", "errBody", "returned"} => Cur \notin aborted)

\* The second attempt timed out after the first was answered and retried
C31_Witness ==
    /\ pc = "raised"
    /\ error.status = 408
    /\ nFetch = 2
    /\ aborted = {1}
    /\ res.fetch = 0

-----------------------------------------------------------------------------
(* Further properties of the Stream *)

\* C32: the stream decoder absorbs nothing but the JSON-decode failure of an
\* event: an error the consumer injects where an event is handed over is
\* propagated and ends the traversal.
C32_AsStated ==
    [][(injected' /\ ~injected) => (spc' = "threw" /\ sError' # NoError)]_vars

\* C33: with a finite maxRetries, when every attempt is answered or fails and
\* every sleep ends, a logical call that was started ends, with exactly one
\* outcome: a returned value or a raised error, which then stays as it is;
\* the number of attempts never exceeds maxRetries + 1.
C33_CallTerminates ==
    /\ (pc # "idle") ~> (pc \in {"returned", "raised"})
    /\ [](pc = "returned" => (error = NoError /\ result # Undefined))
    /\ [](pc = "raised" => (error # NoError /\ result = Undefined))
    /\ [](pc \notin {"returned", "raised"} => (error = NoError /\ result = Undefined))
    /\ [][(pc = "returned" \/ pc = "raised") =>
            UNCHANGED <<pc, result, error, nFetch, attempt>>]_vars
    /\ [](attempt <= maxRetries /\ nFetch <= attempt + 1)

\* The call has raised after using every retry it was allowed
C33_Witness ==
    /\ pc = "raised"
    /\ maxRetries = MaxRetriesBound
    /\ attempt = maxRetries
    /\ nFetch = maxRetries + 1
    /\ res.status = 503

\* C34: when a traversal has ended, by whatever path, its timeout timer has
\* been cancelled.
C34_AsStated == Over => ~sTimer

\* The body is shorter than the buffer bound
ShortBody == sent # NoStream /\ Len(sent.head) + Len(sent.tail) < MAX_SSE_BUFFER

\* The text of the whole body, decoded in one piece
WholeText == Decode(<<>>, sent.head \o sent.tail).text

\* C35: for a body shorter than the buffer bound, the events emitted and the
\* way the traversal ends do not depend on how the bytes are split into
\* chunks: under every split the traversal never overflows, emits a prefix of
\* the payloads of the whole text, and, when it ends by itself, has emitted
\* exactly those payloads, without an error, at the sentinel if the body has
\* one in a complete frame and at the end of the data otherwise; it raises
\* only when a read fails.
C35_ChunkingIndependent ==
    ShortBody =>
        /\ ~Overflowed
        /\ IsPrefix(emitted, PayloadsOf(WholeText))
        /\ EndedByItself =>
            /\ emitted = PayloadsOf(WholeText)
            /\ emitted = sent.events
            /\ sError = NoError
            /\ readDone <=> ~sent.hasDone
            /\ sent.hasDone => Delivered >= Len(sent.head)
        /\ spc = "threw" => sError \in ReadErrors

\* A chunk has ended inside the two-byte character: its lead byte is held
\* back and the buffer ends before it
C35_Witness ==
    /\ sent = StreamTwoByteCharacter
    /\ ShortBody
    /\ spc = "read"
    /\ pending = <<LeadByte>>
    /\ buffer = DataPrefix \o <<"\"">>

\* The text after the last blank line of a text: the frame that was not
\* terminated
RECURSIVE TrailingFrame(_)
TrailingFrame(text) ==
    LET boundary == IndexOfBlankLine(text)
    IN  IF boundary = -1 THEN text ELSE TrailingFrame(SliceFrom(text, boundary + 2))

\* The payloads of the data: lines of a text
DataPayloads(text) ==
    LET dataLines == SelectSeq(Split(text), IsDataLine)
    IN  [i \in 1..Len(dataLines) |-> Trim(SliceFrom(dataLines[i], 5))]

\* C36: events come from frames terminated by a blank line only.  When the
\* body ends, the step that meets the end of the data emits nothing and
\* raises nothing; the traversal is then over without an error, the buffer
\* still holds the frame that was not terminated, and the events emitted are
\* those of the text before that frame, whatever its data: lines hold.
C36_TrailingFrameDropped ==
    /\ [][(readDone' /\ ~readDone) =>
            /\ emitted' = emitted
            /\ buffer' = buffer
            /\ spc' = "done"
            /\ sError' = NoError]_vars
    /\ [](readDone =>
            /\ spc = "done"
            /\ sError = NoError
            /\ buffer = TrailingFrame(WholeText)
            /\ emitted = PayloadsOf(SubSeq(WholeText, 1, Len(WholeText) - Len(buffer)))
            /\ Len(emitted) = Len(sent.events))

\* The body has ended with the sentinel line in an unterminated frame: the
\* traversal ended at the end of the data with that line still in the buffer
C36_Witness ==
    /\ sent = StreamTrailingDone
    /\ readDone
    /\ spc = "done"
    /\ DataPayloads(buffer) = <<DONE>>
    /\ emitted = << <<"1">> >>
    /\ sError = NoError

\* C37: a traversal issues exactly one HTTP request.  The request is issued
\* when the traversal starts and no other ever is: a non-2xx response, with
\* a status the Dispatcher would retry or any other, leads to the error with
\* no new request, and so does a rejected fetch, although the client allows
\* retries.
C37_StreamNeverRetries ==
    /\ [](sFetch = (IF spc = "new" THEN 0 ELSE 1))
    /\ [](Len(sRequests) = sFetch)
    /\ [][(Connected /\ ~Ok(sStatus')) =>
            (spc' = "errText" /\ sFetch' = sFetch /\ sRequests' = sRequests)]_vars
    /\ [][(spc = "errText" /\ spc' # spc) =>
            (spc' = "threw" /\ sError'.status = sStatus /\ sFetch' = sFetch)]_vars
    /\ [][ConnectRejected => (spc' = "threw" /\ sFetch' = sFetch)]_vars
    /\ [][Over => (Over' /\ sFetch' = sFetch)]_vars
    /\ [](maxRetries = DEFAULT_MAX_RETRIES /\ maxRetries > 0)

\* A 503 ended the traversal after its only request
C37_Witness ==
    /\ spc = "threw"
    /\ sStatus = 503
    /\ sStatus \in RETRYABLE_STATUS
    /\ sFetch = 1
    /\ Len(sRequests) = 1
    /\ maxRetries = 2

\* C38: the timeout can end a logical call only while an attempt waits for
\* its response.  The step that receives a response cancels the timer; while
\* a body is read and while the call sleeps no timer is armed and the
\* attempt's controller is not aborted; no step taken from there raises the
\* 408 error, which is raised from a fetch in flight only; and the only step
\* out of a sleep is the next attempt, with the delay as it was computed.
C38_TimeoutOnlyWhileInFlight ==
    /\ [][ResponseReceived => (timers' = {} /\ Cur \notin aborted')]_vars
    /\ [](pc \in {"okBody", "errBody", "sleep"} =>
            (timers = {} /\ Cur \notin aborted /\ inFlight = {}))
    /\ [][(pc = "okBody" \/ pc = "errBody" \/ pc = "sleep") =>
            (error'.status # 408 /\ aborted' = aborted)]_vars
    /\ [][(error'.status = 408 /\ error.status # 408) =>
            (pc = "fetch" /\ Cur \in inFlight /\ Cur \in aborted /\ res.fetch # Cur)]_vars
    /\ [][(pc = "sleep") =>
            (pc' = "fetch" /\ attempt' = attempt + 1 /\ delay' = delay
                /\ error' = NoError)]_vars

\* The call returned after a sleep of the 30 seconds a 429 asked for
C38_Witness ==
    /\ pc = "returned"
    /\ nFetch = 2
    /\ delay = 30000
    /\ aborted = {}
    /\ timers = {}

\* C39: a 2xx response whose body cannot be parsed as JSON never yields a
\* returned value: when the read of the body of a 2xx response does not give
\* a value, the call raises APIError with status 0 and a message that embeds
\* the parse error, without another attempt; a 2xx response leads to a value
\* or to that error and to nothing else.
C39_UnparseableOkBodyRaises ==
    /\ [][(pc = "okBody" /\ pc' # pc /\ result' \notin OkValues) =>
            /\ pc' = "raised"
            /\ result' = Undefined
            /\ error'.name = "APIError"
            /\ error'.status = 0
            /\ \E e \in BodyErrors : error'.message = "Network error: " \o e.message
            /\ nFetch' = nFetch
            /\ attempt' = attempt]_vars
    /\ [](pc = "okBody" => (Ok(res.status) /\ res.fetch = Cur))
    /\ []((pc = "raised" /\ Ok(res.status) /\ res.fetch = Cur) =>
            (error.status = 0 /\ result = Undefined))
    /\ [][(pc = "raised") => (pc' = "raised" /\ nFetch' = nFetch)]_vars

\* A 201 whose body was not JSON, after one retry
C39_Witness ==
    /\ pc = "raised"
    /\ res.status = 201
    /\ res.fetch = 1
    /\ error = APIError("Network error: Unexpected token", 0, Undefined)
    /\ result = Undefined
    /\ attempt < maxRetries

\* Every frame of the text, its delimiter included, and the unterminated
\* text at its end are shorter than the buffer bound
AllFramesShort(text) ==
    /\ \A i \in 1..Len(CompleteFrames(text)) :
          Len(CompleteFrames(text)[i]) + 2 < MAX_SSE_BUFFER
    /\ Len(TrailingFrame(text)) < MAX_SSE_BUFFER

\* C40: a stream in which every frame, delimiter included, is shorter than
\* the bound is never rejected for overflow, however its bytes are grouped
\* into reads.
C40_AsStated ==
    (sent # NoStream /\ AllFramesShort(WholeText)) => ~Overflowed

====
